---- MODULE Spec2Model ----
(***************************************************************************)
(* State-machine model of the ownlingo translation job system:            *)
(*   JobCreator and TranslationJobRunner (src/unnamed/part_018).           *)
(*                                                                         *)
(* Every handler of the runner is an async function; the model has one    *)
(* action per synchronous segment of code, i.e. the code that runs from   *)
(* one `await` (timer, provider call) to the next.  The data base tables  *)
(* are sequences in rowid order, a row's id is its index.                 *)
(***************************************************************************)
EXTENDS Integers, Sequences, FiniteSets, TLC

(* ------------------------------ bounds -------------------------------- *)
\* number of createJob calls (two-job scenarios)
MaxJobs == 2
\* number of createJob calls in the one-job scenario
SoloJobs == 1
\* priorities passed to createJob are 0..MaxPriority
MaxPriority == 0
\* config.maxConcurrency of the runner that is given room for every job
PairConcurrency == 2
\* the runner's config.maxConcurrency (a configuration value, instantiated small)
MaxConcurrency == 1
\* number of poll loops that may be alive at once (start() calls not yet wound down)
MaxLoops == 1
\* number of retryFailedItems calls
MaxRequeues == 1
\* number of stop() calls that wait for the active jobs at once
MaxStopWaiters == 2
\* number of rateLimiter.consume calls made from outside translate
MaxDirectCalls == 1
\* priorities 0..TopPriority in the scenario of jobs of different priorities
TopPriority == 1
\* number of data base queries that throw
MaxFaults == 2
\* withRetry is called with config.maxRetries in 0..MaxRetriesConfig
MaxRetriesConfig == 2
\* a TranslatorChain has 1..MaxProviders providers (primary and fallbacks)
MaxProviders == 3
\* callers of BaseTranslator.translate that share one RateLimiter
LimiterCallers == 2
\* translate calls begun on one RateLimiter
MaxTranslations == 3
\* the clock stops advancing once this much time has passed since the last
\* refill of a limiter
MaxElapsedMs == 60000

(* ------------------------- program constants -------------------------- *)
\* max_retries written into every item by createItemsForResources
ItemMaxRetries == 3
\* minInterval = 1000 / provider.rateLimit.requestsPerSecond, in clock ticks
\* (one tick of the model's clock is 1000 / requestsPerSecond milliseconds)
MinInterval == 1

\* The resources table (read-only for the runner).
Resources ==
  [res1 |-> [locale |-> "en", content_hash |-> "h1"],
   res2 |-> [locale |-> "de", content_hash |-> "h2"]]

ResourceIds == DOMAIN Resources
NoResource == "none"
\* what getResource yields for an id that is not in the table (undefined)
NoRow == [locale |-> "none", content_hash |-> "none"]

\* inputs of createJob
JobTypes == {"full", "incremental", "single"}
SourceLocales == {"en", "de"}
TargetLocaleLists == {<<"fr">>, <<"fr", "es">>}

\* outcomes of one provider.translate call
Texts == {"t1", "t2"}
ProviderOutcomes ==
  [kind : {"ok"}, text : Texts]
    \cup [kind : {"retryable", "permanent"}, text : {"none"}]

VARIABLES
  jobs,                  \* table translation_jobs
  items,                 \* table translation_job_items
  translations,          \* table translations (the cache)
  config,                \* TranslationJobRunner.config (set by the constructor)
  running,               \* TranslationJobRunner.running
  activeJobs,            \* TranslationJobRunner.activeJobs
  cancelledJobs,         \* TranslationJobRunner.cancelledJobs
  currentConcurrency,    \* TranslationJobRunner.currentConcurrency
  timeSinceLastRequest,  \* Date.now() - lastRequestTime, saturated at MinInterval
  loops,                 \* number of live processQueue loops (each asleep between polls)
  stopWaiters,           \* number of stop() calls waiting for activeJobs to drain
  exec,                  \* per job: the position of its processJob coroutine
  emitted,               \* events emitted by the last step, in order
  invoked,               \* provider.translate calls started by the last step
  started,               \* the items that have been moved to processing so far
  requeues,              \* number of retryFailedItems calls so far
  lastCall,              \* the call of the public API that the last step was (if any)
  errorListener,         \* a listener of the event 'error' is registered
  faults,                \* data base queries that have thrown so far, by place
  retry,                 \* one call of withRetry: its locals and its position
  chain,                 \* one call of TranslatorChain.translate
  limiter,               \* one RateLimiter and the translate calls that use it
  goLimiter,             \* one Go ratelimit.Limiter, one goroutine in Wait, its ctx
  goChain,               \* one call of the Go fallback.Chain.Translate
  goRetry                \* one call of the Go retry.Do, and its ctx

vars ==
  <<jobs, items, translations, config, running, activeJobs, cancelledJobs,
    currentConcurrency, timeSinceLastRequest, loops, stopWaiters, exec,
    emitted, invoked, started, requeues, lastCall, errorListener, faults, retry,
    chain, limiter, goLimiter, goChain, goRetry>>

\* the state of the job system
runnerVars ==
  <<jobs, items, translations, config, running, activeJobs, cancelledJobs,
    currentConcurrency, timeSinceLastRequest, loops, stopWaiters, exec,
    emitted, invoked, started, requeues, lastCall, errorListener, faults>>

JobIds == 1..MaxJobs

NoItem == [id |-> 0, retry_count |-> 0]

\* a step that is the continuation of a timer or of a provider call
NoCall == [op |-> "none"]

IdleExec ==
  [pc |-> "idle", queue |-> <<>>, cur |-> NoItem, wait |-> 0,
   attempts |-> 0, kinds |-> {}]

\* The state as one record, so that the code of a handler can be composed
\* statement by statement.  emitted/invoked start empty at every step.
Cur ==
  [jobs |-> jobs, items |-> items, translations |-> translations,
   config |-> config, running |-> running, activeJobs |-> activeJobs,
   cancelledJobs |-> cancelledJobs,
   currentConcurrency |-> currentConcurrency,
   timeSinceLastRequest |-> timeSinceLastRequest,
   loops |-> loops, stopWaiters |-> stopWaiters, exec |-> exec,
   emitted |-> <<>>, invoked |-> <<>>, started |-> started,
   requeues |-> requeues,
   lastCall |-> NoCall, errorListener |-> errorListener, faults |-> faults]

Commit(s) ==
  /\ jobs' = s.jobs
  /\ items' = s.items
  /\ translations' = s.translations
  /\ config' = s.config
  /\ running' = s.running
  /\ activeJobs' = s.activeJobs
  /\ cancelledJobs' = s.cancelledJobs
  /\ currentConcurrency' = s.currentConcurrency
  /\ timeSinceLastRequest' = s.timeSinceLastRequest
  /\ loops' = s.loops
  /\ stopWaiters' = s.stopWaiters
  /\ exec' = s.exec
  /\ emitted' = s.emitted
  /\ invoked' = s.invoked
  /\ started' = s.started
  /\ requeues' = s.requeues
  /\ lastCall' = s.lastCall
  /\ errorListener' = s.errorListener
  /\ faults' = s.faults
  /\ retry' = retry
  /\ chain' = chain
  /\ limiter' = limiter
  /\ goLimiter' = goLimiter
  /\ goChain' = goChain
  /\ goRetry' = goRetry

Ev(type, jobId, itemId) == [type |-> type, jobId |-> jobId, itemId |-> itemId]

\* emit(type, payload); the listeners run at once: `persisted` is the status
\* they find in the data base for the job or item of the event
Emit(s, e) ==
  [s EXCEPT !.emitted = Append(@,
     [type |-> e.type, jobId |-> e.jobId, itemId |-> e.itemId,
      persisted |-> IF e.itemId # 0 THEN s.items[e.itemId].status
                    ELSE IF e.jobId # 0 THEN s.jobs[e.jobId].status
                    ELSE "none"])]

(* ============================ JobCreator ============================== *)

\* the (resource, locale) pairs in the order of the two nested loops
RECURSIVE PairsOf(_, _)
PairsOf(resourceIds, targetLocales) ==
  IF resourceIds = <<>> THEN <<>>
  ELSE [k \in 1..Len(targetLocales) |->
          [resource_id |-> Head(resourceIds), target_locale |-> targetLocales[k]]]
       \o PairsOf(Tail(resourceIds), targetLocales)

createItemsForResources(s, jobId, resourceIds, targetLocales) ==
  LET pairs == PairsOf(resourceIds, targetLocales)
      rows == [k \in 1..Len(pairs) |->
                 [job_id |-> jobId,
                  resource_id |-> pairs[k].resource_id,
                  target_locale |-> pairs[k].target_locale,
                  status |-> "pending",
                  retry_count |-> 0,
                  max_retries |-> ItemMaxRetries,
                  error_message |-> "none",
                  translated_content |-> "none"]]
  IN [s EXCEPT !.items = @ \o rows]

\* the resources table in primary-key order, as a SELECT scans it
ResourceOrder == <<"res1", "res2">>

InList(x, list) == \E k \in 1..Len(list) : list[k] = x

\* MUTANT of createFullJobItems: the SELECT misses WHERE locale = ?
createFullJobItemsAnyLocale(s, jobId, options) ==
  createItemsForResources(s, jobId, ResourceOrder, options.targetLocales)

createFullJobItems(s, jobId, options) ==
  createItemsForResources(s, jobId,
    SelectSeq(ResourceOrder, LAMBDA r : Resources[r].locale = options.sourceLocale),
    options.targetLocales)

createIncrementalJobItems(s, jobId, options) ==
  createItemsForResources(s, jobId,
    SelectSeq(ResourceOrder, LAMBDA r :
        /\ Resources[r].locale = options.sourceLocale
        /\ ~ \E t \in 1..Len(s.translations) :
               /\ s.translations[t].resource_id = r
               /\ s.translations[t].source_hash = Resources[r].content_hash
               /\ InList(s.translations[t].target_locale, options.targetLocales)),
    options.targetLocales)

createSingleJobItems(s, jobId, options) ==
  createItemsForResources(s, jobId, <<options.resourceId>>, options.targetLocales)

\* createJob: the job row is inserted first; a `single` job without
\* resourceId throws after that insert, leaving the row without items.
createJob(s, options) ==
  LET jobId == Len(s.jobs) + 1
      s1 == [s EXCEPT !.jobs = Append(@,
               [status |-> "pending", priority |-> options.priority,
                total_items |-> 0, completed_items |-> 0, failed_items |-> 0])]
  IN CASE options.type = "full" -> createFullJobItems(s1, jobId, options)
       [] options.type = "incremental" -> createIncrementalJobItems(s1, jobId, options)
       [] options.type = "single" ->
            IF options.resourceId = NoResource THEN s1
            ELSE createSingleJobItems(s1, jobId, options)

CreateJobOptions ==
  [type : JobTypes, sourceLocale : SourceLocales,
   targetLocales : TargetLocaleLists, priority : 0..MaxPriority,
   resourceId : ResourceIds \cup {NoResource}]

(* ======================= TranslationJobRunner ========================= *)

updateJobStatus(s, jobId, status) ==
  [s EXCEPT !.jobs[jobId].status = status]

\* `updates` is a record of further columns to set
updateItemStatus(s, itemId, status, updates) ==
  [s EXCEPT !.items[itemId] =
     [f \in DOMAIN @ |->
        IF f = "status" THEN status
        ELSE IF f \in DOMAIN updates THEN updates[f]
        ELSE @[f]],
     !.started = IF status = "processing" THEN @ \cup {itemId} ELSE @]

NoUpdates == [x \in {} |-> "none"]

updateItemRetry(s, itemId, retryCount, errorMessage) ==
  [s EXCEPT !.items[itemId].retry_count = retryCount,
            !.items[itemId].error_message = errorMessage,
            !.items[itemId].status = "pending"]

ItemsOfJob(s, jobId) == {i \in 1..Len(s.items) : s.items[i].job_id = jobId}

CountStatus(s, jobId, status) ==
  Cardinality({i \in ItemsOfJob(s, jobId) : s.items[i].status = status})

\* MUTANT of updateJobProgress: the completed count misses WHERE job_id = ?
updateJobProgressAnyJob(s, jobId) ==
  LET total == Cardinality(ItemsOfJob(s, jobId))
      completed == Cardinality({i \in 1..Len(s.items) : s.items[i].status = "completed"})
      failed == CountStatus(s, jobId, "failed")
      s1 == [s EXCEPT !.jobs[jobId].total_items = total,
                      !.jobs[jobId].completed_items = completed,
                      !.jobs[jobId].failed_items = failed]
  IN Emit(s1, Ev("progress", jobId, 0))

updateJobProgress(s, jobId) ==
  LET total == Cardinality(ItemsOfJob(s, jobId))
      completed == CountStatus(s, jobId, "completed")
      failed == CountStatus(s, jobId, "failed")
      s1 == [s EXCEPT !.jobs[jobId].total_items = total,
                      !.jobs[jobId].completed_items = completed,
                      !.jobs[jobId].failed_items = failed]
  IN Emit(s1, Ev("progress", jobId, 0))

\* MUTANT of finalizeJob: the event is emitted before the status is written
finalizeJobEmitFirst(s, jobId) ==
  updateJobStatus(Emit(s, Ev("job:completed", jobId, 0)), jobId, "completed")

\* the status is 'completed' whether or not items failed
finalizeJob(s, jobId) ==
  Emit(updateJobStatus(s, jobId, "completed"), Ev("job:completed", jobId, 0))

\* MUTANT of getNextJob: ORDER BY created_at only
getNextJobOldestFirst(s) ==
  LET pending == {j \in 1..Len(s.jobs) : s.jobs[j].status = "pending"}
  IN IF pending = {} THEN 0
     ELSE CHOOSE j \in pending : \A k \in pending : j <= k

\* MUTANT of getNextJob: running jobs are selected as well
getNextJobAlsoRunning(s) ==
  LET pending == {j \in 1..Len(s.jobs) : s.jobs[j].status \in {"pending", "running"}}
  IN IF pending = {} THEN 0
     ELSE CHOOSE j \in pending :
            \A k \in pending :
              \/ s.jobs[j].priority > s.jobs[k].priority
              \/ s.jobs[j].priority = s.jobs[k].priority /\ j <= k

\* MUTANT of getNextJob: cancelled jobs are selected as well
getNextJobAlsoCancelled(s) ==
  LET pending == {j \in 1..Len(s.jobs) : s.jobs[j].status \in {"pending", "cancelled"}}
  IN IF pending = {} THEN 0
     ELSE CHOOSE j \in pending :
            \A k \in pending :
              \/ s.jobs[j].priority > s.jobs[k].priority
              \/ s.jobs[j].priority = s.jobs[k].priority /\ j <= k

\* SELECT ... WHERE status = 'pending' ORDER BY priority DESC, created_at ASC LIMIT 1
\* (jobs are created one after the other: created_at grows with the row id)
getNextJob(s) ==
  LET pending == {j \in 1..Len(s.jobs) : s.jobs[j].status = "pending"}
  IN IF pending = {} THEN 0
     ELSE CHOOSE j \in pending :
            \A k \in pending :
              \/ s.jobs[j].priority > s.jobs[k].priority
              \/ s.jobs[j].priority = s.jobs[k].priority /\ j <= k

\* MUTANT of getJobItems: ORDER BY created_at DESC
getJobItemsNewestFirst(s, jobId) ==
  LET ids == SelectSeq([i \in 1..Len(s.items) |-> i],
               LAMBDA i : /\ s.items[i].job_id = jobId
                          /\ s.items[i].status \in {"pending", "failed"})
  IN [k \in 1..Len(ids) |->
        [id |-> ids[Len(ids) + 1 - k],
         retry_count |-> s.items[ids[Len(ids) + 1 - k]].retry_count]]

\* the rows of the job with status pending or failed, as copies.  All items of
\* a job carry the created_at of their createJob call; among equal keys the
\* ORDER BY of SQLite keeps the order of the scan, which is the order of
\* insertion (rowid order within idx_items_job).
getJobItems(s, jobId) ==
  LET ids == SelectSeq([i \in 1..Len(s.items) |-> i],
               LAMBDA i : /\ s.items[i].job_id = jobId
                          /\ s.items[i].status \in {"pending", "failed"})
  IN [k \in 1..Len(ids) |->
        [id |-> ids[k], retry_count |-> s.items[ids[k]].retry_count]]

getResource(resourceId) ==
  IF resourceId \in ResourceIds THEN Resources[resourceId] ELSE NoRow

\* MUTANT of getCachedTranslation: the two query parameters are bound in the
\* wrong order
getCachedTranslationSwapped(s, sourceHash, targetLocale) ==
  LET rows == {t \in 1..Len(s.translations) :
                 /\ s.translations[t].source_hash = targetLocale
                 /\ s.translations[t].target_locale = sourceHash}
  IN IF rows = {} THEN 0 ELSE CHOOSE t \in rows : \A u \in rows : t <= u

\* SELECT ... WHERE source_hash = ? AND target_locale = ? LIMIT 1: the index on
\* (source_hash, target_locale) yields the matching row with the lowest rowid
getCachedTranslation(s, sourceHash, targetLocale) ==
  LET rows == {t \in 1..Len(s.translations) :
                 /\ s.translations[t].source_hash = sourceHash
                 /\ s.translations[t].target_locale = targetLocale}
  IN IF rows = {} THEN 0 ELSE CHOOSE t \in rows : \A u \in rows : t <= u

cacheTranslation(s, translation) ==
  [s EXCEPT !.translations = Append(@, translation)]

SetExec(s, jobId, e) == [s EXCEPT !.exec[jobId] = e]

\* this.provider.translate(...) is called: the coroutine waits for its result
callProvider(s, jobId, item) ==
  LET s1 == [s EXCEPT !.invoked = Append(@, [jobId |-> jobId, itemId |-> item.id])]
  IN SetExec(s1, jobId,
       [s1.exec[jobId] EXCEPT !.pc = "calling", !.attempts = @ + 1])

\* waitForRateLimit up to its timer, or, when no timer is needed, to its end:
\* lastRequestTime = Date.now() resets the elapsed time to 0 and the caller,
\* suspended in `await this.waitForRateLimit()`, resumes in a later microtask
waitForRateLimit(s, jobId, item) ==
  IF s.timeSinceLastRequest < MinInterval
  THEN SetExec(s, jobId,
         [s.exec[jobId] EXCEPT !.pc = "rateWait",
                               !.wait = MinInterval - s.timeSinceLastRequest])
  ELSE SetExec([s EXCEPT !.timeSinceLastRequest = 0], jobId,
         [s.exec[jobId] EXCEPT !.pc = "rateDone"])

\* the end of processJobItem's try block: the item is completed
completeItem(s, jobId, item, translatedContent) ==
  LET s1 == updateItemStatus(s, item.id, "completed",
              [translated_content |-> translatedContent])
      s2 == updateJobProgress(s1, jobId)
      s3 == Emit(s2, Ev("item:completed", jobId, item.id))
  IN SetExec(s3, jobId, [s3.exec[jobId] EXCEPT !.pc = "next"])

\* the catch block of processJobItem; `kind` is the error that was thrown
processJobItemCatch(s, jobId, item, kind) ==
  LET retryCount == item.retry_count + 1
      e == [s.exec[jobId] EXCEPT !.kinds = @ \cup {kind}]
  IN IF retryCount < s.items[item.id].max_retries
     THEN LET s1 == updateItemRetry(s, item.id, retryCount, kind)
              s2 == Emit(s1, Ev("item:retry", jobId, item.id))
          IN SetExec(s2, jobId,
               [e EXCEPT !.pc = "retryWait", !.cur.retry_count = retryCount])
     ELSE LET s1 == updateItemStatus(s, item.id, "failed", [error_message |-> kind])
              s2 == updateJobProgress(s1, jobId)
              s3 == Emit(s2, Ev("item:failed", jobId, item.id))
          IN SetExec(s3, jobId, [e EXCEPT !.pc = "next"])

\* MUTANT of processJobItem: the cache is not consulted
processJobItemNoCache(s, jobId, item) ==
  LET s1 == updateItemStatus(s, item.id, "processing", NoUpdates)
      row == s1.items[item.id]
      resource == getResource(row.resource_id)
  IN IF resource = NoRow
     THEN processJobItemCatch(s1, jobId, item, "notfound")
     ELSE waitForRateLimit(s1, jobId, item)

\* processJobItem from its first statement to its first await
processJobItem(s, jobId, item) ==
  LET s1 == updateItemStatus(s, item.id, "processing", NoUpdates)
      row == s1.items[item.id]
      resource == getResource(row.resource_id)
  IN IF resource = NoRow
     THEN processJobItemCatch(s1, jobId, item, "notfound")
     ELSE LET cached == getCachedTranslation(s1, resource.content_hash,
                                             row.target_locale)
          IN IF cached # 0
             THEN completeItem(Emit(s1, Ev("item:cache-hit", jobId, item.id)),
                               jobId, item,
                               s1.translations[cached].translated_content)
             ELSE waitForRateLimit(s1, jobId, item)

\* MUTANT of processJobLoop: the loop does not look at cancelledJobs
processJobLoopNoCancelCheck(s, jobId) ==
  LET e == s.exec[jobId]
  IN IF e.queue = <<>>
     THEN LET s1 == finalizeJob(s, jobId)
          IN [s1 EXCEPT !.activeJobs = @ \ {jobId}, !.exec[jobId] = IdleExec]
     ELSE processJobItem(
            SetExec(s, jobId,
              [e EXCEPT !.queue = Tail(@), !.cur = Head(e.queue),
                        !.attempts = 0, !.kinds = {}]),
            jobId, Head(e.queue))

\* processJob's for loop, from the loop head to the next await; after the loop
\* finalizeJob and the finally block
processJobLoop(s, jobId) ==
  LET e == s.exec[jobId]
  IN IF e.queue = <<>> \/ jobId \in s.cancelledJobs
     THEN LET s1 == finalizeJob(s, jobId)
          IN [s1 EXCEPT !.activeJobs = @ \ {jobId}, !.exec[jobId] = IdleExec]
     ELSE processJobItem(
            SetExec(s, jobId,
              [e EXCEPT !.queue = Tail(@), !.cur = Head(e.queue),
                        !.attempts = 0, !.kinds = {}]),
            jobId, Head(e.queue))

\* processJob from its call to its first await
processJob(s, jobId) ==
  IF jobId \in s.cancelledJobs
  THEN [updateJobStatus(s, jobId, "cancelled") EXCEPT !.cancelledJobs = @ \ {jobId}]
  ELSE LET s1 == [s EXCEPT !.activeJobs = @ \cup {jobId}]
           s2 == updateJobStatus(s1, jobId, "running")
           s3 == SetExec(s2, jobId, [IdleExec EXCEPT !.queue = getJobItems(s2, jobId)])
       IN processJobLoop(s3, jobId)

\* one iteration of processQueue's loop, up to its sleep
pollIteration(s) ==
  LET job == getNextJob(s)
  IN IF job # 0 /\ s.currentConcurrency < s.config.maxConcurrency
     THEN processJob(s, job)
     ELSE s

\* processQueue from the loop head when the getNextJob query throws in the
\* next n iterations.  The catch block emits 'error' and the loop goes on at
\* once (the sleep is inside the try block).  EventEmitter.emit('error') with
\* no listener throws the error: the promise of processQueue is rejected and
\* the loop is gone, this.running unchanged.
RECURSIVE pollWithFaults(_, _)
pollWithFaults(s, n) ==
  IF n = 0 THEN pollIteration(s)
  ELSE LET s1 == [s EXCEPT !.faults.poll = @ + 1]
       IN IF s1.errorListener
          THEN pollWithFaults(Emit(s1, Ev("error", 0, 0)), n - 1)
          ELSE [s1 EXCEPT !.loops = @ - 1]

\* processJob when the getJobItems query throws: the catch and finally blocks
processJobFault(s, jobId) ==
  IF jobId \in s.cancelledJobs
  THEN processJob(s, jobId)
  ELSE LET s1 == [s EXCEPT !.activeJobs = @ \cup {jobId}, !.faults.job = @ + 1]
           s2 == updateJobStatus(s1, jobId, "running")
           s3 == updateJobStatus(s2, jobId, "failed")
           s4 == Emit(s3, Ev("job:failed", jobId, 0))
       IN [s4 EXCEPT !.activeJobs = @ \ {jobId}]

(* ------------------------------ actions ------------------------------- *)

\* a continuation of `await this.waitForRateLimit()` is queued as a microtask:
\* no timer fires and no time passes before it has run
MicrotaskQueued == \E j \in JobIds : exec[j].pc = "rateDone"

CreateJob(maxJobs, optionSet) ==
  /\ Len(jobs) < maxJobs
  /\ \E options \in optionSet :
       Commit([createJob(Cur, options) EXCEPT
                 !.lastCall = [op |-> "createJob", options |-> options]])

\* start(): throws when already running; else the first poll runs at once
Start ==
  /\ ~running
  /\ loops < MaxLoops
  /\ Commit(pollIteration(
       [Emit([Cur EXCEPT !.running = TRUE], Ev("started", 0, 0))
          EXCEPT !.loops = @ + 1, !.lastCall = [op |-> "start"]]))

\* start() when the first n queries of the poll loop throw
StartFault(maxFaults) ==
  /\ ~running
  /\ loops < MaxLoops
  /\ \E n \in 1..(maxFaults - faults.poll) :
       Commit(pollWithFaults(
         [Emit([Cur EXCEPT !.running = TRUE], Ev("started", 0, 0))
            EXCEPT !.loops = @ + 1, !.lastCall = [op |-> "start"]], n))

\* the poll loop's sleep ends and the next n queries of the loop throw
PollFault(maxFaults) ==
  /\ ~ MicrotaskQueued
  /\ loops > 0
  /\ running
  /\ \E n \in 1..(maxFaults - faults.poll) : Commit(pollWithFaults(Cur, n))

\* the poll loop's sleep ends, a job is dispatched and its getJobItems throws
PollJobFault(maxFaults) ==
  /\ ~ MicrotaskQueued
  /\ loops > 0
  /\ running
  /\ faults.job < maxFaults
  /\ getNextJob(Cur) # 0
  /\ currentConcurrency < config.maxConcurrency
  /\ Commit(processJobFault(Cur, getNextJob(Cur)))

\* runner.on('error', listener)
OnError ==
  /\ ~errorListener
  /\ Commit([Cur EXCEPT !.errorListener = TRUE, !.lastCall = [op |-> "on"]])

\* MUTANT of PollWake: the loop does not test this.running
PollWakeIgnoringStop ==
  /\ ~ MicrotaskQueued
  /\ loops > 0
  /\ Commit(pollIteration(Cur))

\* the poll loop's sleep ends: the loop ends when stopped, else it polls again
PollWake ==
  /\ ~ MicrotaskQueued
  /\ loops > 0
  /\ IF running THEN Commit(pollIteration(Cur))
     ELSE Commit([Cur EXCEPT !.loops = @ - 1])

\* stop(): emits 'stopped' at once when no job is active, else waits; every
\* call that waits is a waiter of its own
Stop ==
  /\ activeJobs # {} => stopWaiters < MaxStopWaiters
  /\ LET s == [Cur EXCEPT !.running = FALSE, !.lastCall = [op |-> "stop"]]
     IN IF activeJobs = {} THEN Commit(Emit(s, Ev("stopped", 0, 0)))
        ELSE Commit([s EXCEPT !.stopWaiters = @ + 1])

\* a waiting stop() sees that no job is active
StopPoll ==
  /\ ~ MicrotaskQueued
  /\ stopWaiters > 0
  /\ activeJobs = {}
  /\ Commit(Emit([Cur EXCEPT !.stopWaiters = @ - 1], Ev("stopped", 0, 0)))

\* processJob resumes after `await processJobItem(...)`
NextItem(j) ==
  /\ exec[j].pc = "next"
  /\ Commit(processJobLoop(Cur, j))

\* the timer of waitForRateLimit fires
RateWake(j) ==
  /\ ~ MicrotaskQueued
  /\ exec[j].pc = "rateWait"
  /\ exec[j].wait = 0
  /\ Commit(callProvider([Cur EXCEPT !.timeSinceLastRequest = 0], j, exec[j].cur))

\* processJobItem resumes after `await this.waitForRateLimit()` when no timer
\* was needed: provider.translate is called
RateResume(j) ==
  /\ exec[j].pc = "rateDone"
  /\ Commit(callProvider(Cur, j, exec[j].cur))

\* provider.translate returns or throws
ProviderReturn(j, outcomes) ==
  /\ exec[j].pc = "calling"
  /\ \E out \in outcomes :
       LET item == exec[j].cur
           row == items[item.id]
       IN IF out.kind = "ok"
          THEN Commit(completeItem(
                 cacheTranslation(Cur,
                   [resource_id |-> row.resource_id,
                    target_locale |-> row.target_locale,
                    source_hash |-> getResource(row.resource_id).content_hash,
                    translated_content |-> out.text]),
                 j, item, out.text))
          ELSE Commit(processJobItemCatch(Cur, j, item, out.kind))

\* the retry delay is over: processJobItem is called again for the same item
RetryWake(j) ==
  /\ ~ MicrotaskQueued
  /\ exec[j].pc = "retryWait"
  /\ Commit(processJobItem(Cur, j, exec[j].cur))

cancelJob(s, jobId) ==
  LET s1 == [s EXCEPT !.cancelledJobs = @ \cup {jobId}]
      s2 == IF jobId \notin s1.activeJobs
            THEN [updateJobStatus(s1, jobId, "cancelled")
                    EXCEPT !.cancelledJobs = @ \ {jobId}]
            ELSE s1
  IN Emit(s2, Ev("job:cancelled", jobId, 0))

CancelJob(j) ==
  /\ j \in 1..Len(jobs)
  /\ Commit([cancelJob(Cur, j) EXCEPT
               !.lastCall = [op |-> "cancelJob", jobId |-> j]])

\* MUTANT of retryFailedItems: the UPDATE of the items misses job_id = ?
retryFailedItemsAnyJob(s, jobId) ==
  LET s1 == [s EXCEPT !.items =
               [i \in 1..Len(@) |->
                  IF @[i].status = "failed"
                  THEN [@[i] EXCEPT !.status = "pending", !.retry_count = 0,
                                    !.error_message = "none"]
                  ELSE @[i]]]
      s2 == IF s1.jobs[jobId].status \in {"failed", "completed"}
            THEN [s1 EXCEPT !.jobs[jobId].status = "pending"]
            ELSE s1
  IN Emit(s2, Ev("job:retry", jobId, 0))

retryFailedItems(s, jobId) ==
  LET s1 == [s EXCEPT !.items =
               [i \in 1..Len(@) |->
                  IF @[i].job_id = jobId /\ @[i].status = "failed"
                  THEN [@[i] EXCEPT !.status = "pending", !.retry_count = 0,
                                    !.error_message = "none"]
                  ELSE @[i]]]
      s2 == IF s1.jobs[jobId].status \in {"failed", "completed"}
            THEN [s1 EXCEPT !.jobs[jobId].status = "pending"]
            ELSE s1
  IN Emit(s2, Ev("job:retry", jobId, 0))

\* getJobProgress: the counters stored in the job row (no item is counted)
getJobProgress(s, jobId) ==
  [total |-> s.jobs[jobId].total_items,
   completed |-> s.jobs[jobId].completed_items,
   failed |-> s.jobs[jobId].failed_items]

RetryFailedItems(j, maxRequeues) ==
  /\ j \in 1..Len(jobs)
  /\ requeues < maxRequeues
  /\ Commit([retryFailedItems(Cur, j) EXCEPT
               !.requeues = @ + 1,
               !.lastCall = [op |-> "retryFailedItems", jobId |-> j]])

\* one tick of the clock (a step only while some comparison can still see it)
Tick ==
  /\ ~ MicrotaskQueued
  /\ \/ timeSinceLastRequest < MinInterval
     \/ \E j \in JobIds : exec[j].pc = "rateWait" /\ exec[j].wait > 0
  /\ Commit([Cur EXCEPT
       !.timeSinceLastRequest = IF @ < MinInterval THEN @ + 1 ELSE @,
       !.exec = [j \in DOMAIN @ |->
                   IF @[j].pc = "rateWait" /\ @[j].wait > 0
                   THEN [@[j] EXCEPT !.wait = @ - 1] ELSE @[j]]])

(* ============================= withRetry ============================== *)
\* src/src/shopify/queries.ts.  retry.Do of the Go service is modelled on its
\* own below: its sleep also ends when the context is cancelled.

\* the substrings that isRetryable looks for in error.message.toLowerCase()
RetryableSubstrings ==
  {"rate limit", "429", "500", "502", "503", "timeout", "econnreset"}

\* messages of thrown errors, and which of the substrings each one includes
\* once it is lower-cased
Messages == {"Rate limit exceeded", "HTTP 503", "ECONNRESET", "auth error", "error"}

LowerCaseIncludes(message) ==
  CASE message = "Rate limit exceeded" -> {"rate limit"}
    [] message = "HTTP 503" -> {"503"}
    [] message = "ECONNRESET" -> {"econnreset"}
    [] OTHER -> {}

\* what fn() resolves to, and what it may throw: a TranslationError with its
\* flag, another Error, or a value that is no Error
OkValue == [class |-> "value", retryable |-> FALSE, message |-> "success"]
NoError == [class |-> "undefined", retryable |-> FALSE, message |-> "none"]
ErrorValues ==
  [class : {"TranslationError"}, retryable : BOOLEAN,
   message : {"error", "Rate limit exceeded"}]
    \cup [class : {"Error"}, retryable : {FALSE}, message : Messages]
    \cup [class : {"string"}, retryable : {FALSE}, message : {"HTTP 503"}]

\* a RateLimitError (a TranslationError, retryable) carries retryAfterMs
RetryAfterValues == {0, 5000, 60000}
RateLimitErrors ==
  [class : {"RateLimitError"}, retryable : {TRUE},
   message : {"Rate limit exceeded"}, retryAfterMs : RetryAfterValues]

\* DEFAULT_CONFIG.baseDelayMs and DEFAULT_CONFIG.maxDelayMs
DefaultBaseDelayMs == 1000
DefaultMaxDelayMs == 30000
\* values of config.maxDelayMs
MaxDelayValues == {2000, DefaultMaxDelayMs}
\* values of Math.random(), in tenths
RandomTenths == {0, 5, 9}

isRetryable(error) ==
  IF error.class \in {"TranslationError", "RateLimitError"} THEN error.retryable
  ELSE IF error.class = "Error"
       THEN LowerCaseIncludes(error.message) \cap RetryableSubstrings # {}
       ELSE FALSE

\* random: the value the next Math.random() call yields; delays: the delays
\* slept so far
IdleRetry ==
  [pc |-> "idle", maxRetries |-> 0, attempt |-> 0, lastError |-> NoError,
   thrown |-> NoError, calls |-> 0, sleeps |-> 0, outcomes |-> <<>>,
   baseDelayMs |-> DefaultBaseDelayMs, maxDelayMs |-> DefaultMaxDelayMs,
   random |-> 0, delays |-> <<>>]

Min(a, b) == IF a < b THEN a ELSE b

RECURSIVE Pow2(_)
Pow2(n) == IF n = 0 THEN 1 ELSE 2 * Pow2(n - 1)

\* MUTANT of calculateDelay: the delay suggested by the error is not looked at
calculateDelayBackoffOnly(error, attempt, baseDelayMs, maxDelayMs, random) ==
  LET exponentialDelay == baseDelayMs * Pow2(attempt)
      jitter == (random * 3 * exponentialDelay) \div 100
  IN Min(exponentialDelay + jitter, maxDelayMs)

\* random is Math.random() in tenths: jitter = random * 0.3 * exponentialDelay
calculateDelay(error, attempt, baseDelayMs, maxDelayMs, random) ==
  IF error.class = "RateLimitError" /\ error.retryAfterMs > 0
  THEN Min(error.retryAfterMs, maxDelayMs)
  ELSE LET exponentialDelay == baseDelayMs * Pow2(attempt)
           jitter == (random * 3 * exponentialDelay) \div 100
       IN Min(exponentialDelay + jitter, maxDelayMs)

\* MUTANT of retryLoopHead: the loop runs while attempt < maxRetries
retryLoopHeadStrict(r) ==
  IF r.attempt < r.maxRetries
  THEN [r EXCEPT !.pc = "calling", !.calls = @ + 1]
  ELSE [r EXCEPT !.pc = "thrown", !.thrown = r.lastError]

\* the head of the for loop: the next attempt calls fn(), and after the loop
\* lastError is thrown
retryLoopHead(r) ==
  IF r.attempt <= r.maxRetries
  THEN [r EXCEPT !.pc = "calling", !.calls = @ + 1]
  ELSE [r EXCEPT !.pc = "thrown", !.thrown = r.lastError]

withRetry(maxRetries, maxDelayMs) ==
  retryLoopHead([IdleRetry EXCEPT !.maxRetries = maxRetries,
                                  !.maxDelayMs = maxDelayMs])

\* MUTANT of withRetryCatch: the error is not classified
withRetryCatchUnclassified(r, error) ==
  LET r1 == [r EXCEPT !.lastError = error]
  IN IF r1.attempt = r1.maxRetries
     THEN [r1 EXCEPT !.pc = "thrown", !.thrown = r1.lastError]
     ELSE [r1 EXCEPT !.pc = "sleeping", !.sleeps = @ + 1, !.random = 0,
                     !.delays = Append(@,
                        calculateDelay(error, r1.attempt, r1.baseDelayMs,
                                       r1.maxDelayMs, r1.random))]

\* the catch block of the loop body
withRetryCatch(r, error) ==
  LET r1 == [r EXCEPT !.lastError = error]
  IN IF ~ isRetryable(error) THEN [r1 EXCEPT !.pc = "thrown", !.thrown = error]
     ELSE IF r1.attempt = r1.maxRetries
          THEN [r1 EXCEPT !.pc = "thrown", !.thrown = r1.lastError]
          ELSE [r1 EXCEPT !.pc = "sleeping", !.sleeps = @ + 1, !.random = 0,
                          !.delays = Append(@,
                             calculateDelay(error, r1.attempt, r1.baseDelayMs,
                                            r1.maxDelayMs, r1.random))]

\* withRetry(fn, {maxRetries}) is called
WithRetry ==
  /\ retry.pc = "idle"
  /\ \E maxRetries \in 0..MaxRetriesConfig, maxDelayMs \in MaxDelayValues :
       retry' = withRetry(maxRetries, maxDelayMs)
  /\ UNCHANGED <<runnerVars, chain, limiter, goLimiter, goChain, goRetry>>

\* fn() resolves or rejects
FnSettles ==
  /\ retry.pc = "calling"
  /\ \E out \in {OkValue} \cup ErrorValues \cup RateLimitErrors,
        random \in RandomTenths :
       LET r == [retry EXCEPT !.outcomes = Append(@, out)]
       IN retry' = IF out = OkValue THEN [r EXCEPT !.pc = "returned"]
                   ELSE withRetryCatch([r EXCEPT !.random = random], out)
  /\ UNCHANGED <<runnerVars, chain, limiter, goLimiter, goChain, goRetry>>

\* the sleep between two attempts is over: attempt++ and the loop head
SleepWake ==
  /\ retry.pc = "sleeping"
  /\ retry' = retryLoopHead([retry EXCEPT !.attempt = @ + 1])
  /\ UNCHANGED <<runnerVars, chain, limiter, goLimiter, goChain, goRetry>>

(* ========================== TranslatorChain =========================== *)
\* src/src/types/settings.ts, class TranslatorChain.  Providers are numbered
\* 1..providers in the order of allProviders = [primary, ...fallbacks].

\* what isAvailable() and translate() of provider p may throw
ChainErrors(p) ==
  [class : {"TranslationError"}, retryable : BOOLEAN, provider : {p},
   errors : {<<>>}]
    \cup [class : {"Error"}, retryable : {FALSE}, provider : {p}, errors : {<<>>}]

NoChainError ==
  [class |-> "undefined", retryable |-> FALSE, provider |-> 0, errors |-> <<>>]

\* `All providers failed. Errors: ...`: the messages of the collected errors
AllProvidersFailed(errors) ==
  [class |-> "TranslationError", retryable |-> FALSE, provider |-> 0,
   errors |-> errors]

\* MUTANT of shouldFallback: every error falls back
shouldFallbackAlways(error) == TRUE

shouldFallback(error) ==
  IF error.class = "TranslationError" THEN error.retryable ELSE TRUE

\* how a call to a provider settles
Settled(kind, error) == [kind |-> kind, error |-> error]

\* calls: the calls made to providers; outcomes: how each one settled
IdleChain ==
  [pc |-> "idle", providers |-> 0, index |-> 0, errors |-> <<>>,
   result |-> 0, thrown |-> NoChainError, calls |-> <<>>, outcomes |-> <<>>]

\* the head of the for loop: isAvailable() of the next provider is called, and
\* after the loop the aggregate error is thrown
chainLoopHead(c) ==
  IF c.index > c.providers
  THEN [c EXCEPT !.pc = "thrown", !.thrown = AllProvidersFailed(c.errors)]
  ELSE [c EXCEPT !.pc = "checking",
                 !.calls = Append(@, [provider |-> c.index, op |-> "isAvailable"])]

\* MUTANT of chainAfterAvailable: an unavailable provider is called all the same
chainAfterAvailableIgnored(c, isAvailable) ==
  [c EXCEPT !.pc = "translating",
            !.calls = Append(@, [provider |-> c.index, op |-> "translate"])]

\* isAvailable() has resolved
chainAfterAvailable(c, isAvailable) ==
  IF ~ isAvailable THEN chainLoopHead([c EXCEPT !.index = @ + 1])
  ELSE [c EXCEPT !.pc = "translating",
                 !.calls = Append(@, [provider |-> c.index, op |-> "translate"])]

\* MUTANT of chainCatch: only the last error is kept
chainCatchKeepsLast(c, error) ==
  LET c1 == [c EXCEPT !.errors = <<error>>]
  IN IF ~ shouldFallback(error) THEN [c1 EXCEPT !.pc = "thrown", !.thrown = error]
     ELSE chainLoopHead([c1 EXCEPT !.index = @ + 1])

\* the catch block of the loop body
chainCatch(c, error) ==
  LET c1 == [c EXCEPT !.errors = Append(@, error)]
  IN IF ~ shouldFallback(error) THEN [c1 EXCEPT !.pc = "thrown", !.thrown = error]
     ELSE chainLoopHead([c1 EXCEPT !.index = @ + 1])

\* chain.translate(request) is called
ChainTranslate ==
  /\ chain.pc = "idle"
  /\ \E n \in 1..MaxProviders :
       chain' = chainLoopHead([IdleChain EXCEPT !.providers = n, !.index = 1])
  /\ UNCHANGED <<runnerVars, retry, limiter, goLimiter, goChain, goRetry>>

\* provider.isAvailable() resolves or rejects
IsAvailableSettles ==
  /\ chain.pc = "checking"
  /\ \/ \E isAvailable \in BOOLEAN :
          chain' = chainAfterAvailable(
                     [chain EXCEPT !.outcomes = Append(@,
                        Settled(IF isAvailable THEN "available" ELSE "unavailable",
                                NoChainError))],
                     isAvailable)
     \/ \E error \in ChainErrors(chain.index) :
          chain' = chainCatch(
                     [chain EXCEPT !.outcomes = Append(@, Settled("error", error))],
                     error)
  /\ UNCHANGED <<runnerVars, retry, limiter, goLimiter, goChain, goRetry>>

\* provider.translate(request) resolves or rejects
TranslateSettles ==
  /\ chain.pc = "translating"
  /\ \/ chain' = [chain EXCEPT !.outcomes = Append(@, Settled("ok", NoChainError)),
                                !.pc = "returned", !.result = chain.index]
     \/ \E error \in ChainErrors(chain.index) :
          chain' = chainCatch(
                     [chain EXCEPT !.outcomes = Append(@, Settled("error", error))],
                     error)
  /\ UNCHANGED <<runnerVars, retry, limiter, goLimiter, goChain, goRetry>>

(* ============================ RateLimiter ============================= *)
\* src/src/shopify/queries.ts, class RateLimiter, and its use by
\* BaseTranslator.translate (src/src/providers/base.ts).  elapsedMs is
\* Date.now() - lastRefill.

MinuteMs == 60000
MaxWaitMs == 1000

RateLimitConfigs ==
  { [tokensPerMinute |-> 1000, requestsPerMinute |-> 10],
    [tokensPerMinute |-> 1000, requestsPerMinute |-> 2] }

\* estimateInputTokens(systemPrompt + userPrompt)
EstimatedTokens == {500, 2000}
\* result.usage.total
UsageTotals == {100, 1000}
\* how far the clock moves between two steps
ClockAdvances == {30000, 60000}

LimiterCallerIds == 1..LimiterCallers

IdleCaller ==
  [pc |-> "idle", estimatedTokens |-> 0, waitTime |-> 0, slept |-> 0,
   waited |-> FALSE]

NoLimiterCall == [op |-> "none", caller |-> 0]

IdleLimiter ==
  [constructed |-> FALSE, tokensPerMinute |-> 0, requestsPerMinute |-> 0,
   tokenBucket |-> 0, requestBucket |-> 0, elapsedMs |-> 0,
   callers |-> [c \in LimiterCallerIds |-> IdleCaller],
   translations |-> 0, directCalls |-> 0, last |-> NoLimiterCall]

refill(l) ==
  [l EXCEPT
     !.tokenBucket =
        Min(l.tokensPerMinute, @ + (l.tokensPerMinute * l.elapsedMs) \div MinuteMs),
     !.requestBucket =
        Min(l.requestsPerMinute,
            @ + (l.requestsPerMinute * l.elapsedMs) \div MinuteMs),
     !.elapsedMs = 0]

\* MUTANT of canProceed: the request bucket is not looked at
canProceedTokensOnly(l, estimatedTokens) ==
  refill(l).tokenBucket >= estimatedTokens

\* the value canProceed returns; the limiter it leaves behind is refill(l)
canProceed(l, estimatedTokens) ==
  /\ refill(l).requestBucket >= 1
  /\ refill(l).tokenBucket >= estimatedTokens

consume(l, tokens) ==
  [refill(l) EXCEPT !.tokenBucket = @ - tokens, !.requestBucket = @ - 1]

Max(a, b) == IF a > b THEN a ELSE b

calculateResetTime(l) ==
  IF l.tokenBucket >= l.tokensPerMinute /\ l.requestBucket >= l.requestsPerMinute
  THEN 0
  ELSE Max(((l.tokensPerMinute - l.tokenBucket) * MinuteMs) \div l.tokensPerMinute,
           ((l.requestsPerMinute - l.requestBucket) * MinuteMs)
              \div l.requestsPerMinute)

\* getStatus().resetInMs
resetInMs(l) == calculateResetTime(refill(l))

\* one turn of the while loop of waitForCapacity, up to its return or its await
waitForCapacity(l, c, estimatedTokens) ==
  IF canProceed(l, estimatedTokens)
  THEN [refill(l) EXCEPT !.callers[c].pc = "executing",
                         !.callers[c].estimatedTokens = estimatedTokens]
  ELSE [refill(l) EXCEPT
          !.callers[c] = [pc |-> "sleeping", estimatedTokens |-> estimatedTokens,
                          waitTime |-> Min(resetInMs(l), MaxWaitMs), slept |-> 0,
                          waited |-> TRUE]]

\* new RateLimiter(config)
NewRateLimiter ==
  /\ ~ limiter.constructed
  /\ \E rateLimit \in RateLimitConfigs :
       limiter' = [IdleLimiter EXCEPT
                     !.constructed = TRUE,
                     !.tokensPerMinute = rateLimit.tokensPerMinute,
                     !.requestsPerMinute = rateLimit.requestsPerMinute,
                     !.tokenBucket = rateLimit.tokensPerMinute,
                     !.requestBucket = rateLimit.requestsPerMinute,
                     !.last = [op |-> "new", caller |-> 0]]
  /\ UNCHANGED <<runnerVars, retry, chain, goLimiter, goChain, goRetry>>

\* BaseTranslator.translate up to the first await that blocks
Translate(c, maxTranslations) ==
  /\ limiter.constructed
  /\ limiter.callers[c].pc = "idle"
  /\ limiter.translations < maxTranslations
  /\ \E estimatedTokens \in EstimatedTokens :
       limiter' = [waitForCapacity(
                     [limiter EXCEPT !.callers[c] = IdleCaller], c, estimatedTokens)
                   EXCEPT !.translations = @ + 1,
                          !.last = [op |-> "translate", caller |-> c]]
  /\ UNCHANGED <<runnerVars, retry, chain, goLimiter, goChain, goRetry>>

\* the timer of waitForCapacity fires
CapacityWake(c) ==
  /\ limiter.callers[c].pc = "sleeping"
  /\ limiter.callers[c].slept >= limiter.callers[c].waitTime
  /\ limiter' = [waitForCapacity(limiter, c, limiter.callers[c].estimatedTokens)
                 EXCEPT !.last = [op |-> "wake", caller |-> c]]
  /\ UNCHANGED <<runnerVars, retry, chain, goLimiter, goChain, goRetry>>

\* withRetry(executeTranslation) settles: consume(result.usage.total) on
\* success, nothing when it throws
ExecuteSettles(c) ==
  /\ limiter.callers[c].pc = "executing"
  /\ \/ \E total \in UsageTotals :
          limiter' = [consume(limiter, total) EXCEPT
                        !.callers[c] = IdleCaller,
                        !.last = [op |-> "consume", caller |-> c]]
     \/ limiter' = [limiter EXCEPT !.callers[c] = IdleCaller,
                                   !.last = [op |-> "throw", caller |-> c]]
  /\ UNCHANGED <<runnerVars, retry, chain, goLimiter, goChain, goRetry>>

\* BaseTranslator.getRemainingCapacity(), that is rateLimiter.getStatus(), or
\* rateLimiter.canProceed(n) called from outside: the buckets are refilled
GetRemainingCapacity ==
  /\ limiter.constructed
  /\ \E op \in {"getStatus", "canProceed"} :
       limiter' = [refill(limiter) EXCEPT !.last = [op |-> op, caller |-> 0]]
  /\ UNCHANGED <<runnerVars, retry, chain, goLimiter, goChain, goRetry>>

\* rateLimiter.consume(tokens) called from outside translate
DirectConsume(maxDirectCalls) ==
  /\ limiter.constructed
  /\ limiter.directCalls < maxDirectCalls
  /\ \E tokens \in UsageTotals \cup EstimatedTokens :
       limiter' = [consume(limiter, tokens) EXCEPT
                     !.directCalls = @ + 1,
                     !.last = [op |-> "consume", caller |-> 0]]
  /\ UNCHANGED <<runnerVars, retry, chain, goLimiter, goChain, goRetry>>

\* time passes
LimiterTick ==
  /\ limiter.constructed
  /\ \E d \in ClockAdvances :
       /\ limiter.elapsedMs + d <= MaxElapsedMs
       /\ limiter' =
            [limiter EXCEPT
               !.elapsedMs = @ + d,
               !.callers = [c \in LimiterCallerIds |->
                              IF limiter.callers[c].pc = "sleeping"
                              THEN [limiter.callers[c] EXCEPT
                                      !.slept = Min(@ + d, limiter.callers[c].waitTime)]
                              ELSE limiter.callers[c]],
               !.last = [op |-> "tick", caller |-> 0]]
  /\ UNCHANGED <<runnerVars, retry, chain, goLimiter, goChain, goRetry>>

(* ========================= ratelimit.Limiter ========================== *)
\* src/translator/ratelimit/ratelimit.go.  One goroutine calls Wait with a
\* context that another goroutine may cancel.  tokensElapsed is
\* time.Now().Sub(tokensLastFill), requestsElapsed likewise, both in
\* milliseconds and kept up to one minute, beyond which the code does not
\* distinguish them.  timer is what is left of time.After(waitTime); woken is
\* the case of the select that has become ready first.

GoLimits == { [tpm |-> 100, rpm |-> 1], [tpm |-> 100, rpm |-> 2] }
TokensNeeded == {100, 200}
SelectCases == {"done", "timer"}

IdleGoLimiter ==
  [constructed |-> FALSE, tpm |-> 0, rpm |-> 0, tokens |-> 0, requests |-> 0,
   tokensElapsed |-> 0, requestsElapsed |-> 0, pc |-> "idle",
   tokensNeeded |-> 0, timer |-> 0, woken |-> "none", cancelled |-> FALSE,
   err |-> "none", returnedFrom |-> "none", cancelledWhileBlocked |-> FALSE]

Parked(g) == g.pc \in {"waitRequests", "waitTokens"}

\* select { case <-ctx.Done(): ... case <-time.After(waitTime): ... }: the
\* goroutine parks unless a case is ready; of two ready cases either is taken
goSelect(g, pc, waitTime, pick) ==
  [g EXCEPT !.pc = pc,
            !.timer = waitTime,
            !.woken = IF g.cancelled /\ waitTime <= 0 THEN pick
                      ELSE IF g.cancelled THEN "done"
                      ELSE IF waitTime <= 0 THEN "timer"
                      ELSE "none"]

\* one turn of the loop of waitTokens, up to its return or its select
waitTokens(g, pick) ==
  LET r == IF g.tokensElapsed >= MinuteMs
           THEN [g EXCEPT !.tokens = g.tpm, !.tokensElapsed = 0]
           ELSE g
  IN IF r.tokens >= r.tokensNeeded
     THEN [r EXCEPT !.tokens = @ - r.tokensNeeded, !.pc = "idle", !.err = "nil",
                    !.returnedFrom = "waitTokens", !.woken = "none"]
     ELSE goSelect(r, "waitTokens", MinuteMs - g.tokensElapsed, pick)

\* one turn of the loop of waitRequests, up to its return or its select; when
\* it returns nil requestsMu is released and Wait has yet to call waitTokens,
\* which locks tokensMu
waitRequests(g, pick) ==
  LET r == IF g.requestsElapsed >= MinuteMs
           THEN [g EXCEPT !.requests = g.rpm, !.requestsElapsed = 0]
           ELSE g
  IN IF r.requests > 0
     THEN [r EXCEPT !.requests = @ - 1, !.pc = "tokensLock", !.woken = "none"]
     ELSE goSelect(r, "waitRequests", MinuteMs - g.requestsElapsed, pick)

\* MUTANT of ctxDone: the select does not listen to ctx.Done()
ctxDoneUnheard(g) == [g EXCEPT !.cancelled = TRUE]

\* cancel(): ctx.Done() is closed, which wakes a goroutine parked in a select
ctxDone(g) ==
  [g EXCEPT !.cancelled = TRUE,
            !.woken = IF Parked(g) /\ g.woken = "none" THEN "done" ELSE @]

\* ratelimit.NewLimiter(tpm, rpm)
NewLimiter ==
  /\ ~ goLimiter.constructed
  /\ \E limits \in GoLimits :
       goLimiter' = [IdleGoLimiter EXCEPT
                       !.constructed = TRUE,
                       !.tpm = limits.tpm, !.rpm = limits.rpm,
                       !.tokens = limits.tpm, !.requests = limits.rpm]
  /\ UNCHANGED <<runnerVars, retry, chain, limiter, goChain, goRetry>>

\* limiter.Wait(ctx, tokensNeeded)
GoWait ==
  /\ goLimiter.constructed
  /\ goLimiter.pc = "idle"
  /\ \E tokensNeeded \in TokensNeeded, pick \in SelectCases :
       goLimiter' = waitRequests(
                      [goLimiter EXCEPT !.tokensNeeded = tokensNeeded,
                                        !.err = "none", !.returnedFrom = "none",
                                        !.woken = "none",
                                        !.cancelledWhileBlocked = FALSE],
                      pick)
  /\ UNCHANGED <<runnerVars, retry, chain, limiter, goChain, goRetry>>

\* Wait calls waitTokens after waitRequests has returned nil
GoWaitTokens ==
  /\ goLimiter.pc = "tokensLock"
  /\ \E pick \in SelectCases : goLimiter' = waitTokens(goLimiter, pick)
  /\ UNCHANGED <<runnerVars, retry, chain, limiter, goChain, goRetry>>

\* limiter.SetTPM(tpm) or limiter.SetRPM(rpm)
GoSetLimits ==
  /\ goLimiter.constructed
  /\ \/ \E limits \in GoLimits : goLimiter' = [goLimiter EXCEPT !.tpm = limits.tpm]
     \/ \E limits \in GoLimits : goLimiter' = [goLimiter EXCEPT !.rpm = limits.rpm]
  /\ UNCHANGED <<runnerVars, retry, chain, limiter, goChain, goRetry>>

\* the goroutine leaves the select by the case that woke it
GoSelectWake ==
  /\ Parked(goLimiter)
  /\ goLimiter.woken # "none"
  /\ \E pick \in SelectCases :
       goLimiter' =
         IF goLimiter.woken = "done"
         THEN [goLimiter EXCEPT !.pc = "idle", !.err = "Canceled",
                                !.returnedFrom = goLimiter.pc, !.woken = "none"]
         ELSE IF goLimiter.pc = "waitRequests"
              THEN waitRequests([goLimiter EXCEPT !.woken = "none"], pick)
              ELSE waitTokens([goLimiter EXCEPT !.woken = "none"], pick)
  /\ UNCHANGED <<runnerVars, retry, chain, limiter, goChain, goRetry>>

\* the caller cancels the context
GoCancel ==
  /\ goLimiter.constructed
  /\ ~ goLimiter.cancelled
  /\ goLimiter' =
       [ctxDone(goLimiter) EXCEPT
          !.cancelledWhileBlocked = Parked(goLimiter) /\ goLimiter.woken = "none"]
  /\ UNCHANGED <<runnerVars, retry, chain, limiter, goChain, goRetry>>

\* the next Wait is given a fresh context
GoNewContext ==
  /\ goLimiter.pc = "idle"
  /\ goLimiter.cancelled
  /\ goLimiter' = [goLimiter EXCEPT !.cancelled = FALSE]
  /\ UNCHANGED <<runnerVars, retry, chain, limiter, goChain, goRetry>>

\* time passes; a timer that runs out wakes the parked goroutine
GoTick ==
  /\ goLimiter.constructed
  /\ \E d \in ClockAdvances :
       LET runs == Parked(goLimiter) /\ goLimiter.woken = "none"
       IN /\ goLimiter.tokensElapsed < MinuteMs
             \/ goLimiter.requestsElapsed < MinuteMs
             \/ runs
          /\ goLimiter' =
               [goLimiter EXCEPT
                  !.tokensElapsed = Min(@ + d, MinuteMs),
                  !.requestsElapsed = Min(@ + d, MinuteMs),
                  !.timer = IF runs THEN @ - d ELSE @,
                  !.woken = IF runs /\ goLimiter.timer - d <= 0 THEN "timer" ELSE @]
  /\ UNCHANGED <<runnerVars, retry, chain, limiter, goChain, goRetry>>

(* ========================== fallback.Chain ============================ *)
\* src/translator/fallback/fallback.go.  Providers are numbered 1..providers
\* in the order given to NewChain.

\* what provider.Translate may return as err: a *retry.RetryableError with its
\* StatusCode, or any other error
GoErrors ==
  [retryable : {TRUE}, statusCode : {429, 503}, provider : {0}]
    \cup [retryable : {FALSE}, statusCode : {401, 400}, provider : {0}]

GoNil == [retryable |-> FALSE, statusCode |-> 0, provider |-> 0]

\* retry.IsRetryable(err)
IsRetryable(err) == err.retryable

IdleGoChain ==
  [pc |-> "idle", providers |-> 0, i |-> 0, lastErr |-> GoNil, resp |-> 0,
   err |-> GoNil, calls |-> <<>>, outcomes |-> <<>>]

\* the head of the range loop: provider.Translate is called, and after the
\* loop `all providers failed, last error: lastErr` is returned
goChainLoopHead(c) ==
  IF c.i > c.providers
  THEN [c EXCEPT !.pc = "returned", !.err = c.lastErr]
  ELSE [c EXCEPT !.pc = "translating", !.calls = Append(@, c.i)]

\* provider.Translate has returned (resp, err)
goChainAfterTranslate(c, err) ==
  IF err = GoNil
  THEN [c EXCEPT !.pc = "returned", !.resp = c.i]
  ELSE goChainLoopHead([c EXCEPT !.lastErr = [err EXCEPT !.provider = c.i],
                                 !.i = @ + 1])

\* chain.Translate(ctx, req) on a chain of n providers
GoChainTranslate ==
  /\ goChain.pc = "idle"
  /\ \E n \in 1..MaxProviders :
       goChain' = goChainLoopHead([IdleGoChain EXCEPT !.providers = n, !.i = 1])
  /\ UNCHANGED <<runnerVars, retry, chain, limiter, goLimiter, goRetry>>

\* the provider's Translate returns
GoProviderReturns ==
  /\ goChain.pc = "translating"
  /\ \E err \in GoErrors \cup {GoNil} :
       goChain' = goChainAfterTranslate(
                    [goChain EXCEPT !.outcomes = Append(@, err)], err)
  /\ UNCHANGED <<runnerVars, retry, chain, limiter, goLimiter, goRetry>>

(* ============================== retry.Do ============================== *)
\* package retry of the Go service, src/docs/webhooks-handler.md.  The errors
\* an operation returns are GoErrors, and GoNil is nil.

\* DefaultConfig()
GoDefaultMaxRetries == 3
GoInitialBackoff == 1000
GoMaxBackoff == 30000
GoMultiplier == 2

\* calculateBackoff(config, attempt), in milliseconds
calculateBackoff(attempt) ==
  LET backoff == GoInitialBackoff * GoMultiplier ^ attempt
  IN IF backoff > GoMaxBackoff THEN GoMaxBackoff ELSE backoff

\* the locals of Do, what it has returned (err, or ctx.Err() when ctxErr),
\* the calls of operation and what each returned, the backoffs waited for,
\* and whether ctx is cancelled
IdleGoRetry ==
  [pc |-> "idle", maxRetries |-> 0, attempt |-> 0, lastErr |-> GoNil,
   err |-> GoNil, ctxErr |-> FALSE, calls |-> 0, sleeps |-> 0,
   outcomes |-> <<>>, backoffs |-> <<>>, cancelled |-> FALSE]

\* the head of the for loop: operation is called, and after the loop lastErr
\* is returned
doLoopHead(r) ==
  IF r.attempt <= r.maxRetries
  THEN [r EXCEPT !.pc = "calling", !.calls = @ + 1]
  ELSE [r EXCEPT !.pc = "returned", !.err = r.lastErr]

\* operation has returned err: the rest of the loop body up to the select
doAfterOperation(r, err) ==
  IF err = GoNil
  THEN [r EXCEPT !.pc = "returned", !.err = GoNil]
  ELSE IF ~ IsRetryable(err)
  THEN [r EXCEPT !.pc = "returned", !.lastErr = err, !.err = err]
  ELSE IF r.attempt = r.maxRetries
  THEN [r EXCEPT !.pc = "returned", !.lastErr = err, !.err = err]
  ELSE [r EXCEPT !.pc = "backoff", !.lastErr = err, !.sleeps = @ + 1,
                 !.backoffs = Append(@, calculateBackoff(r.attempt))]

\* retry.Do(ctx, config, operation); a nil config is DefaultConfig()
GoDo ==
  /\ goRetry.pc = "idle"
  /\ \E maxRetries \in (0..MaxRetriesConfig) \cup {GoDefaultMaxRetries} :
       goRetry' = doLoopHead([goRetry EXCEPT !.maxRetries = maxRetries])
  /\ UNCHANGED <<runnerVars, retry, chain, limiter, goLimiter, goChain>>

\* operation returns
GoOperationReturns ==
  /\ goRetry.pc = "calling"
  /\ \E err \in GoErrors \cup {GoNil} :
       goRetry' = doAfterOperation(
                    [goRetry EXCEPT !.outcomes = Append(@, err)], err)
  /\ UNCHANGED <<runnerVars, retry, chain, limiter, goLimiter, goChain>>

\* the select of Do: time.After(backoff) fires and the loop goes on, or
\* ctx.Done() is closed and Do returns ctx.Err()
GoDoSelect ==
  /\ goRetry.pc = "backoff"
  /\ \/ goRetry' = doLoopHead([goRetry EXCEPT !.attempt = @ + 1])
     \/ /\ goRetry.cancelled
        /\ goRetry' = [goRetry EXCEPT !.pc = "returned", !.ctxErr = TRUE]
  /\ UNCHANGED <<runnerVars, retry, chain, limiter, goLimiter, goChain>>

\* the caller cancels ctx
GoDoCancel ==
  /\ ~ goRetry.cancelled
  /\ goRetry' = [goRetry EXCEPT !.cancelled = TRUE]
  /\ UNCHANGED <<runnerVars, retry, chain, limiter, goLimiter, goChain>>

(* --------------------------- initial state ---------------------------- *)

\* config.maxRetries when the constructor is given none
DefaultMaxRetries == 3

\* new TranslationJobRunner(db, provider, {maxConcurrency, maxRetries})
InitConfig(maxConcurrency, maxRetries) ==
  /\ config = [maxConcurrency |-> maxConcurrency, maxRetries |-> maxRetries]
  /\ jobs = <<>>
  /\ items = <<>>
  /\ translations = <<>>
  /\ running = FALSE
  /\ activeJobs = {}
  /\ cancelledJobs = {}
  /\ currentConcurrency = 0
  /\ timeSinceLastRequest = MinInterval
  /\ loops = 0
  /\ stopWaiters = 0
  /\ exec = [j \in JobIds |-> IdleExec]
  /\ emitted = <<>>
  /\ invoked = <<>>
  /\ started = {}
  /\ requeues = 0
  /\ lastCall = NoCall
  /\ errorListener = FALSE
  /\ faults = [poll |-> 0, job |-> 0]
  /\ retry = IdleRetry
  /\ chain = IdleChain
  /\ limiter = IdleLimiter
  /\ goLimiter = IdleGoLimiter
  /\ goChain = IdleGoChain
  /\ goRetry = IdleGoRetry

InitWith(maxConcurrency) == InitConfig(maxConcurrency, DefaultMaxRetries)

(* ------------------------- specifications ----------------------------- *)

\* One job, every kind of createJob call and provider outcome, start and stop.
Init == InitWith(MaxConcurrency)

Next ==
  \/ CreateJob(SoloJobs, CreateJobOptions)
  \/ Start
  \/ PollWake
  \/ Stop
  \/ StopPoll
  \/ \E j \in JobIds : NextItem(j)
  \/ \E j \in JobIds : RateWake(j)
  \/ \E j \in JobIds : RateResume(j)
  \/ \E j \in JobIds : ProviderReturn(j, ProviderOutcomes)
  \/ \E j \in JobIds : RetryWake(j)
  \/ \E j \in JobIds : CancelJob(j)
  \/ \E j \in JobIds : RetryFailedItems(j, MaxRequeues)
  \/ Tick

Spec == Init /\ [][Next]_vars

\* Two jobs of one item each (type single, target locale fr), so that jobs run
\* side by side and may translate the same (content hash, locale) key.
PairOptions ==
  {o \in CreateJobOptions :
     o.type = "single" /\ o.sourceLocale = "en" /\ o.targetLocales = <<"fr">>}

PairOutcomes == {o \in ProviderOutcomes : o.kind # "permanent"}

NextPair ==
  \/ CreateJob(MaxJobs, PairOptions)
  \/ Start
  \/ PollWake
  \/ \E j \in JobIds : NextItem(j)
  \/ \E j \in JobIds : RateWake(j)
  \/ \E j \in JobIds : RateResume(j)
  \/ \E j \in JobIds : ProviderReturn(j, PairOutcomes)
  \/ \E j \in JobIds : RetryWake(j)
  \/ \E j \in JobIds : CancelJob(j)
  \/ \E j \in JobIds : RetryFailedItems(j, MaxRequeues)
  \/ Tick

\* the runner is configured with room for both jobs
SpecPair == InitWith(PairConcurrency) /\ [][NextPair]_vars

\* the runner is configured with room for fewer jobs than are created
SpecLimit == InitWith(MaxConcurrency) /\ [][NextPair]_vars

\* Two jobs of one item each with priorities 0..TopPriority, run to completion
\* and re-queued.
PriorityOptions ==
  [type : {"single"}, sourceLocale : {"en"}, targetLocales : {<<"fr">>},
   priority : 0..TopPriority, resourceId : {"res1"}]

OkOutcomes == {o \in ProviderOutcomes : o.kind = "ok" /\ o.text = "t1"}

NextPriority ==
  \/ CreateJob(MaxJobs, PriorityOptions)
  \/ Start
  \/ PollWake
  \/ \E j \in JobIds : NextItem(j)
  \/ \E j \in JobIds : RateWake(j)
  \/ \E j \in JobIds : RateResume(j)
  \/ \E j \in JobIds : ProviderReturn(j, OkOutcomes)
  \/ \E j \in JobIds : CancelJob(j)
  \/ \E j \in JobIds : RetryFailedItems(j, MaxRequeues)
  \/ Tick

SpecPriority == InitWith(PairConcurrency) /\ [][NextPriority]_vars

\* One job of one item; data base queries of the poll loop and of processJob
\* may throw.
FaultOptions == {o \in PairOptions : o.resourceId = "res1"}

NextFault ==
  \/ CreateJob(SoloJobs, FaultOptions)
  \/ OnError
  \/ Start
  \/ StartFault(MaxFaults)
  \/ PollWake
  \/ PollFault(MaxFaults)
  \/ PollJobFault(MaxFaults)
  \/ Stop
  \/ StopPoll
  \/ \E j \in JobIds : NextItem(j)
  \/ \E j \in JobIds : RateWake(j)
  \/ \E j \in JobIds : RateResume(j)
  \/ \E j \in JobIds : ProviderReturn(j, PairOutcomes)
  \/ \E j \in JobIds : RetryWake(j)
  \/ \E j \in JobIds : RetryFailedItems(j, MaxRequeues)
  \/ Tick

SpecFault == InitWith(MaxConcurrency) /\ [][NextFault]_vars

\* A job that translates res1 into fr, and an incremental job created before
\* or after it.
IncrementalOptions ==
  {o \in CreateJobOptions :
     /\ o.sourceLocale = "en"
     /\ o.priority = 0
     /\ \/ o.type = "single" /\ o.resourceId = "res1" /\ o.targetLocales = <<"fr">>
        \/ o.type = "incremental" /\ o.resourceId = NoResource}

NextIncremental ==
  \/ CreateJob(MaxJobs, IncrementalOptions)
  \/ Start
  \/ PollWake
  \/ \E j \in JobIds : NextItem(j)
  \/ \E j \in JobIds : RateWake(j)
  \/ \E j \in JobIds : RateResume(j)
  \/ \E j \in JobIds : ProviderReturn(j, OkOutcomes)
  \/ Tick

SpecIncremental == InitWith(PairConcurrency) /\ [][NextIncremental]_vars

\* One call of withRetry with every sequence of outcomes of fn.
NextRetry ==
  \/ WithRetry
  \/ FnSettles
  \/ SleepWake

SpecRetry == InitWith(MaxConcurrency) /\ [][NextRetry]_vars

\* One call of either retry policy.  withRetry runs in the Node application
\* and retry.Do in the Go service: a behaviour follows one of the two calls.
NextRetryPolicy ==
  \/ goRetry = IdleGoRetry /\ WithRetry
  \/ goRetry = IdleGoRetry /\ FnSettles
  \/ goRetry = IdleGoRetry /\ SleepWake
  \/ retry = IdleRetry /\ GoDo
  \/ retry = IdleRetry /\ GoOperationReturns
  \/ retry = IdleRetry /\ GoDoSelect
  \/ retry = IdleRetry /\ GoDoCancel

SpecRetryPolicy == InitWith(MaxConcurrency) /\ [][NextRetryPolicy]_vars

\* One call of TranslatorChain.translate with every behaviour of its providers.
NextChain ==
  \/ ChainTranslate
  \/ IsAvailableSettles
  \/ TranslateSettles

SpecChain == InitWith(MaxConcurrency) /\ [][NextChain]_vars

\* One RateLimiter shared by the translate calls of LimiterCallers callers.
NextLimiter ==
  \/ NewRateLimiter
  \/ \E c \in LimiterCallerIds : Translate(c, MaxTranslations)
  \/ \E c \in LimiterCallerIds : CapacityWake(c)
  \/ \E c \in LimiterCallerIds : ExecuteSettles(c)
  \/ GetRemainingCapacity
  \/ DirectConsume(MaxDirectCalls)
  \/ LimiterTick

SpecLimiter == InitWith(MaxConcurrency) /\ [][NextLimiter]_vars

\* Timers fire and the clock advances.
SpecLimiterLive ==
  /\ SpecLimiter
  /\ WF_vars(LimiterTick)
  /\ \A c \in LimiterCallerIds : WF_vars(CapacityWake(c))

\* One goroutine calling Limiter.Wait, its context, and the clock.
NextGoLimiter ==
  \/ NewLimiter
  \/ GoWait
  \/ GoWaitTokens
  \/ GoSetLimits
  \/ GoSelectWake
  \/ GoCancel
  \/ GoNewContext
  \/ GoTick

SpecGoLimiter == InitWith(MaxConcurrency) /\ [][NextGoLimiter]_vars

\* One job of one or two items on a runner that is never stopped; timers
\* fire, the poll loop polls and every provider call returns.
LiveOptions ==
  {o \in CreateJobOptions :
     /\ o.type = "single" /\ o.resourceId = "res1"
     /\ o.sourceLocale = "en" /\ o.priority = 0}

NextLive ==
  \/ CreateJob(SoloJobs, LiveOptions)
  \/ Start
  \/ PollWake
  \/ \E j \in JobIds : NextItem(j)
  \/ \E j \in JobIds : RateWake(j)
  \/ \E j \in JobIds : RateResume(j)
  \/ \E j \in JobIds : ProviderReturn(j, PairOutcomes)
  \/ \E j \in JobIds : RetryWake(j)
  \/ \E j \in JobIds : CancelJob(j)
  \/ \E j \in JobIds : RetryFailedItems(j, MaxRequeues)
  \/ Tick

SpecLive ==
  /\ Init
  /\ [][NextLive]_vars
  /\ WF_vars(PollWake)
  /\ WF_vars(Tick)
  /\ \A j \in JobIds :
       /\ WF_vars(NextItem(j))
       /\ WF_vars(RateWake(j))
       /\ WF_vars(RateResume(j))
       /\ WF_vars(ProviderReturn(j, PairOutcomes))
       /\ WF_vars(RetryWake(j))

\* One job of one item on runners that differ in config.maxRetries.
ConfiguredMaxRetries == {1, DefaultMaxRetries}

NextConfig ==
  \/ CreateJob(SoloJobs, FaultOptions)
  \/ Start
  \/ PollWake
  \/ \E j \in JobIds : NextItem(j)
  \/ \E j \in JobIds : RateWake(j)
  \/ \E j \in JobIds : RateResume(j)
  \/ \E j \in JobIds : ProviderReturn(j, PairOutcomes)
  \/ \E j \in JobIds : RetryWake(j)
  \/ Tick

SpecConfig ==
  /\ \E maxRetries \in ConfiguredMaxRetries : InitConfig(MaxConcurrency, maxRetries)
  /\ [][NextConfig]_vars

\* Runners that are started and stopped again and again: start() tests and
\* sets this.running only, so it may be called while an earlier loop sleeps.
RestartLoops == 2

\* start() with at most maxLoops loops alive afterwards
StartWithin(maxLoops) ==
  /\ ~running
  /\ loops < maxLoops
  /\ Commit(pollIteration(
       [Emit([Cur EXCEPT !.running = TRUE], Ev("started", 0, 0))
          EXCEPT !.loops = @ + 1, !.lastCall = [op |-> "start"]]))

NextRestart ==
  \/ CreateJob(SoloJobs, FaultOptions)
  \/ StartWithin(RestartLoops)
  \/ PollWake
  \/ Stop
  \/ StopPoll
  \/ \E j \in JobIds : NextItem(j)
  \/ \E j \in JobIds : RateWake(j)
  \/ \E j \in JobIds : RateResume(j)
  \/ \E j \in JobIds : ProviderReturn(j, PairOutcomes)
  \/ \E j \in JobIds : RetryWake(j)
  \/ Tick

SpecRestart ==
  /\ Init
  /\ [][NextRestart]_vars

\* One call of the Go chain with every behaviour of its providers.
NextGoChain ==
  \/ GoChainTranslate
  \/ GoProviderReturns

SpecGoChain == InitWith(MaxConcurrency) /\ [][NextGoChain]_vars

(* ============================== claims ================================ *)

JobRows == 1..Len(jobs)
ItemRows == 1..Len(items)
Terminal == {"completed", "failed", "cancelled"}
Emitted(type, jobId) ==
  \E k \in 1..Len(emitted) : emitted[k].type = type /\ emitted[k].jobId = jobId
EmittedFor(type, itemId) ==
  \E k \in 1..Len(emitted) : emitted[k].type = type /\ emitted[k].itemId = itemId
\* the cache key of an item: (content hash of its resource, its target locale)
KeyOf(i) ==
  <<getResource(items[i].resource_id).content_hash, items[i].target_locale>>
RowsFor(key) ==
  {t \in 1..Len(translations) :
     <<translations[t].source_hash, translations[t].target_locale>> = key}

\* C1: in every reachable state every job's persisted counters satisfy
\* completed_items + failed_items <= total_items.
C1_CountersWithinTotal ==
  \A j \in JobRows :
    jobs[j].completed_items + jobs[j].failed_items <= jobs[j].total_items

\* a job's counters were written with a failed item, and retryFailedItems has
\* since reset that item to pending
C1_Witness ==
  \E i \in ItemRows :
    /\ items[i].status = "pending"
    /\ jobs[items[i].job_id].failed_items = 1
    /\ jobs[items[i].job_id].status = "pending"

\* C2 (as claimed): whenever a job's status is terminal its counters satisfy
\* completed_items + failed_items = total_items.
C2_TerminalCountersEqual ==
  \A j \in JobRows :
    jobs[j].status \in Terminal =>
      jobs[j].completed_items + jobs[j].failed_items = jobs[j].total_items

\* C3 (as claimed): when an item is marked failed after attempts that all
\* failed with a retryable error, exactly max_retries + 1 provider calls were
\* made for it.
C3_AttemptsMaxRetriesPlusOne ==
  \A k \in 1..Len(emitted) :
    (emitted[k].type = "item:failed"
       /\ exec[emitted[k].jobId].kinds = {"retryable"})
      => exec[emitted[k].jobId].attempts = items[emitted[k].itemId].max_retries + 1

\* C4 (as claimed): no item:retry is emitted for an item whose attempt failed
\* with a non-retryable error (it is failed at once instead).
C4_NoRetryAfterPermanentError ==
  \A k \in 1..Len(emitted) :
    emitted[k].type = "item:retry"
      => items[emitted[k].itemId].error_message \notin {"permanent", "notfound"}

\* C5: when the processing of an item begins (its row leaves status pending)
\* while a cache row exists for its key, the same step marks it completed with
\* the text of a cached row of that key and emits item:cache-hit; the step
\* calls no provider, leaves the rate-limit clock alone and adds no cache row.
C5_CacheHitSkipsProvider ==
  [][\A i \in ItemRows :
       (items[i].status = "pending" /\ items'[i].status # "pending"
          /\ RowsFor(KeyOf(i)) # {})
         => /\ items'[i].status = "completed"
            /\ \E t \in RowsFor(KeyOf(i)) :
                 items'[i].translated_content = translations[t].translated_content
            /\ \E k \in 1..Len(emitted') :
                 emitted'[k].type = "item:cache-hit" /\ emitted'[k].itemId = i
            /\ invoked' = <<>>
            /\ timeSinceLastRequest' = timeSinceLastRequest
            /\ translations' = translations]_vars

\* two jobs for the same key have run one after the other: the second one's
\* item was completed from the cache and the cache holds one row
C5_Witness ==
  /\ Len(items) = 2
  /\ EmittedFor("item:cache-hit", 2)
  /\ items[1].status = "completed"
  /\ items[2].status = "completed"
  /\ items[2].translated_content = items[1].translated_content
  /\ Len(translations) = 1

\* C6 (as claimed): at most one successful provider call is made per key, i.e.
\* the cache never holds two rows for one (content hash, target locale).
C6_OneCallPerKey ==
  \A t, u \in 1..Len(translations) :
    (/\ translations[t].source_hash = translations[u].source_hash
     /\ translations[t].target_locale = translations[u].target_locale) => t = u

\* C6 (amended): a provider call is started for an item only if its cache check
\* found no row for its key: every call is started by an item that was
\* suspended in waitForRateLimit, and an item is suspended there only by a
\* segment in which no row for its key exists.
C6_CallOnlyAfterCacheMiss ==
  [][/\ \A k \in 1..Len(invoked') :
          exec[invoked'[k].jobId].pc \in {"rateWait", "rateDone"}
     /\ \A j \in JobIds :
          (/\ exec[j].pc \notin {"rateWait", "rateDone"}
           /\ exec'[j].pc \in {"rateWait", "rateDone"})
            => RowsFor(KeyOf(exec'[j].cur.id)) = {}]_vars

\* a call is started for a key that another job has cached in the meantime
C6_Witness ==
  \E k \in 1..Len(invoked) : RowsFor(KeyOf(invoked[k].itemId)) # {}

\* C7: cancelJob on a pending job sets its status to cancelled at once, and a
\* cancelled job stays cancelled, is never made active again and no provider
\* call is made for it.
C7_CancelledPendingNeverRuns ==
  [][\A j \in JobRows :
       /\ (jobs[j].status = "pending"
             /\ \E k \in 1..Len(emitted') :
                  emitted'[k].type = "job:cancelled" /\ emitted'[k].jobId = j)
            => jobs'[j].status = "cancelled"
       /\ jobs[j].status = "cancelled"
            => /\ jobs'[j].status = "cancelled"
               /\ j \notin activeJobs'
               /\ exec'[j] = IdleExec
               /\ \A k \in 1..Len(invoked') : invoked'[k].jobId # j]_vars

\* a job was cancelled while pending; the runner has since run another job to
\* completion and the cancelled job's item is still pending
C7_Witness ==
  \E j, k \in JobRows :
    /\ jobs[j].status = "cancelled"
    /\ jobs[k].status = "completed"
    /\ j < k
    /\ \E i \in ItemRows : items[i].job_id = j /\ items[i].status = "pending"
    /\ \E i \in ItemRows : items[i].job_id = k /\ items[i].status = "completed"

\* ids of the items of job j's snapshot that have not been started
Unstarted(j) == {exec[j].queue[k].id : k \in 1..Len(exec[j].queue)}

\* C8: while a running job is flagged cancelled none of its unstarted items
\* leaves status pending; cancelJob itself changes no item and no executor;
\* and an item is marked failed only by the catch block of its own failed
\* provider call.
C8_CancelStopsAtItemBoundary ==
  [][/\ \A j \in JobRows :
          (j \in cancelledJobs /\ j \in activeJobs)
            => \A i \in Unstarted(j) : items'[i].status = "pending"
     /\ (\E k \in 1..Len(emitted') : emitted'[k].type = "job:cancelled")
          => items' = items /\ exec' = exec
     /\ \A i \in ItemRows :
          (items[i].status # "failed" /\ items'[i].status = "failed")
            => /\ exec[items[i].job_id].pc = "calling"
               /\ exec[items[i].job_id].cur.id = i
               /\ items'[i].error_message \in {"retryable", "permanent"}]_vars

\* a job was cancelled while its first item was in flight: that item has just
\* completed and the second item is still waiting in the snapshot
C8_Witness ==
  \E j \in JobRows :
    /\ j \in cancelledJobs
    /\ j \in activeJobs
    /\ exec[j].queue # <<>>
    /\ Emitted("item:completed", j)
    /\ invoked = <<>>
    /\ exec[j].attempts = 1

\* C9 (as claimed): a job that was cancelled while running (its flag is set) has,
\* once its executor has stopped, the persisted status cancelled.
C9_CancelledRunEndsCancelled ==
  \A j \in JobRows :
    (j \in cancelledJobs /\ j \notin activeJobs) => jobs[j].status = "cancelled"

\* C10 (as claimed): the number of active jobs never exceeds config.maxConcurrency.
C10_ActiveWithinMaxConcurrency ==
  Cardinality(activeJobs) <= config.maxConcurrency

\* processQueue has called processJob(j) in this step: the status of a job
\* that had no executor changes, and not by a call of the public API
Dispatched(j) ==
  /\ j \in JobRows
  /\ j \notin activeJobs
  /\ lastCall'.op \notin {"createJob", "cancelJob", "retryFailedItems"}
  /\ jobs'[j].status # jobs[j].status

\* C11: whenever the scheduler dispatches a job, the job has status pending and
\* no other pending job has a higher priority, or the same priority and an
\* earlier creation time.
C11_DispatchByPriorityThenFifo ==
  [][\A j \in JobRows :
       Dispatched(j) =>
         /\ jobs[j].status = "pending"
         /\ \A k \in JobRows \ {j} :
              jobs[k].status = "pending" =>
                /\ ~ (jobs[k].priority > jobs[j].priority)
                /\ ~ (jobs[k].priority = jobs[j].priority /\ k < j)]_vars

\* the younger job of higher priority is running while the older job of lower
\* priority is still pending
C11_Witness ==
  /\ Len(jobs) = 2
  /\ jobs[1].priority < jobs[2].priority
  /\ jobs[1].status = "pending"
  /\ jobs[2].status = "running"
  /\ 2 \in activeJobs

\* C12: while the runner is stopped no job is dispatched, and `stopped` is
\* emitted only in a state in which no job is active and no executor is alive.
C12_StopCeasesDispatchAndDrains ==
  [][/\ ~ running' => \A j \in JobRows : ~ Dispatched(j)
     /\ (\E k \in 1..Len(emitted') : emitted'[k].type = "stopped")
          => /\ activeJobs' = {}
             /\ \A j \in JobIds : exec'[j].pc = "idle"]_vars

\* a stop() that had to wait for a running job has just completed, and a job
\* that has run before is pending again and stays undispatched
C12_Witness ==
  /\ Emitted("stopped", 0)
  /\ lastCall = NoCall
  /\ ~ running
  /\ \E j \in JobRows : jobs[j].status = "pending" /\ jobs[j].completed_items > 0

\* C13 (as claimed): when a poll iteration raises an error the poll loop stays
\* alive and the runner running, and the loop sleeps for the poll interval
\* before it polls again (the step has one failing iteration and dispatches no
\* job).
C13_PollErrorKeepsLoopAlive ==
  [][faults'.poll > faults.poll =>
       /\ running'
       /\ loops' > 0
       /\ faults'.poll = faults.poll + 1
       /\ \A j \in JobRows : ~ Dispatched(j)]_vars

\* C14: retryFailedItems(jobId) sets every failed item of the job to pending
\* with retry_count 0 and no error message, sets the job's status to pending
\* if and only if it was failed or completed, and changes no other item, no
\* other column, no other job, no cache row and no executor.
C14_RetryFailedItemsFrame ==
  [][lastCall'.op = "retryFailedItems" =>
       LET j == lastCall'.jobId
       IN /\ Len(items') = Len(items)
          /\ \A i \in ItemRows :
               items'[i] =
                 IF items[i].job_id = j /\ items[i].status = "failed"
                 THEN [items[i] EXCEPT !.status = "pending", !.retry_count = 0,
                                       !.error_message = "none"]
                 ELSE items[i]
          /\ Len(jobs') = Len(jobs)
          /\ \A k \in JobRows :
               jobs'[k] =
                 IF k = j /\ jobs[k].status \in {"failed", "completed"}
                 THEN [jobs[k] EXCEPT !.status = "pending"]
                 ELSE jobs[k]
          /\ translations' = translations
          /\ exec' = exec
          /\ activeJobs' = activeJobs
          /\ cancelledJobs' = cancelledJobs]_vars

\* retryFailedItems has just reset the failed item of a completed job while
\* the failed item of the other job stays failed
C14_Witness ==
  /\ lastCall.op = "retryFailedItems"
  /\ Len(items) = 2
  /\ \E i, k \in ItemRows :
       /\ items[i].job_id = lastCall.jobId
       /\ items[i].status = "pending"
       /\ items[i].retry_count = 0
       /\ jobs[lastCall.jobId].failed_items = 1
       /\ jobs[lastCall.jobId].status = "pending"
       /\ items[k].job_id # lastCall.jobId
       /\ items[k].status = "failed"
       /\ items[k].retry_count = ItemMaxRetries - 1

\* the elements of a list of locales
LocalesOf(list) == {list[k] : k \in 1..Len(list)}

\* C15: createJob adds one job, with status pending, and adds items of that job
\* only, all pending with retry_count 0: for type full one item per resource
\* of the source locale and target locale, for type single one item per target
\* locale for the given resource, and no item for any other pair.
C15_CreateJobFanOut ==
  [][lastCall'.op = "createJob" =>
       LET o == lastCall'.options
           j == Len(jobs')
           new == (Len(items) + 1)..Len(items')
           count(r, l) ==
             Cardinality({i \in new : /\ items'[i].resource_id = r
                                      /\ items'[i].target_locale = l})
           locales == LocalesOf(o.targetLocales)
                        \cup {items'[i].target_locale : i \in new}
           resources == ResourceIds \cup {items'[i].resource_id : i \in new}
       IN /\ Len(jobs') = Len(jobs) + 1
          /\ jobs'[j].status = "pending"
          /\ \A k \in JobRows : jobs'[k] = jobs[k]
          /\ \A i \in ItemRows : items'[i] = items[i]
          /\ \A i \in new :
               /\ items'[i].job_id = j
               /\ items'[i].status = "pending"
               /\ items'[i].retry_count = 0
          /\ o.type = "full" =>
               \A r \in resources, l \in locales :
                 count(r, l) =
                   IF /\ r \in ResourceIds
                      /\ Resources[r].locale = o.sourceLocale
                      /\ l \in LocalesOf(o.targetLocales)
                   THEN 1 ELSE 0
          /\ (o.type = "single" /\ o.resourceId # NoResource) =>
               \A r \in resources, l \in locales :
                 count(r, l) =
                   IF r = o.resourceId /\ l \in LocalesOf(o.targetLocales)
                   THEN 1 ELSE 0]_vars

\* a full job for source locale en and two target locales has just been
\* created: two items, both for the one resource of that locale
C15_Witness ==
  /\ lastCall.op = "createJob"
  /\ lastCall.options.type = "full"
  /\ lastCall.options.sourceLocale = "en"
  /\ Len(lastCall.options.targetLocales) = 2
  /\ Len(items) = 2
  /\ items[1].resource_id = "res1"
  /\ items[2].resource_id = "res1"
  /\ items[1].target_locale # items[2].target_locale

\* C16 (as claimed): createJob of type incremental creates items for a
\* resource if and only if the resource has the source locale and, for at
\* least one of the target locales, the cache holds no translation of the
\* resource with its current content hash.
C16_IncrementalSelectsUntranslated ==
  [][(lastCall'.op = "createJob" /\ lastCall'.options.type = "incremental") =>
       LET o == lastCall'.options
           new == (Len(items) + 1)..Len(items')
       IN \A r \in ResourceIds :
            (\E i \in new : items'[i].resource_id = r)
              <=> /\ Resources[r].locale = o.sourceLocale
                  /\ \E l \in LocalesOf(o.targetLocales) :
                       ~ \E t \in 1..Len(translations) :
                           /\ translations[t].resource_id = r
                           /\ translations[t].source_hash = Resources[r].content_hash
                           /\ translations[t].target_locale = l]_vars

\* C17: when item:completed, item:failed, job:completed or job:failed is
\* emitted, the persisted status of that item or job has that value at the
\* moment of the emission.
C17_StatusPersistedBeforeEvent ==
  \A k \in 1..Len(emitted) :
    /\ emitted[k].type = "item:completed" => emitted[k].persisted = "completed"
    /\ emitted[k].type = "item:failed" => emitted[k].persisted = "failed"
    /\ emitted[k].type = "job:completed" => emitted[k].persisted = "completed"
    /\ emitted[k].type = "job:failed" => emitted[k].persisted = "failed"

\* a job whose item has failed after its retries has just been finalized:
\* job:completed was emitted and the listeners found the job completed
C17_Witness ==
  \E k \in 1..Len(emitted) :
    /\ emitted[k].type = "job:completed"
    /\ emitted[k].persisted = "completed"
    /\ jobs[emitted[k].jobId].failed_items = 1

\* C18 (as claimed): once a job's persisted status is completed, failed or
\* cancelled no step changes it, except retryFailedItems, which resets it to
\* pending.
C18_TerminalStatusSetOnce ==
  [][\A j \in JobRows :
       (jobs[j].status \in Terminal /\ jobs'[j].status # jobs[j].status)
         => /\ jobs'[j].status = "pending"
            /\ lastCall'.op = "retryFailedItems"
            /\ lastCall'.jobId = j]_vars

\* every call of operation that Do has made returned a retryable error
GoAllFailedRetryable ==
  /\ goRetry.outcomes # <<>>
  /\ \A k \in 1..Len(goRetry.outcomes) : IsRetryable(goRetry.outcomes[k])

\* the last call of operation that Do has made returned nil
GoSucceededLast ==
  /\ goRetry.outcomes # <<>>
  /\ goRetry.outcomes[Len(goRetry.outcomes)] = GoNil

\* what C19 says of a call of withRetry
WithRetryAttempts ==
  /\ (retry.pc = "thrown"
        /\ \A k \in 1..Len(retry.outcomes) : isRetryable(retry.outcomes[k]))
       => /\ retry.calls = retry.maxRetries + 1
          /\ retry.sleeps = retry.maxRetries
          /\ Len(retry.outcomes) = retry.calls
          /\ retry.thrown = retry.outcomes[Len(retry.outcomes)]
  /\ retry.pc = "returned"
       => /\ retry.outcomes[Len(retry.outcomes)] = OkValue
          /\ retry.calls = Len(retry.outcomes)
          /\ retry.calls <= retry.maxRetries + 1
          /\ retry.sleeps = retry.calls - 1

\* a call of Do whose operation succeeded at its k-th call has made exactly k
\* calls, k <= MaxRetries + 1, waited k - 1 times and returned nil
DoSuccessAttempts ==
  (goRetry.pc = "returned" /\ GoSucceededLast)
    => /\ goRetry.calls = Len(goRetry.outcomes)
       /\ goRetry.calls <= goRetry.maxRetries + 1
       /\ goRetry.sleeps = goRetry.calls - 1
       /\ goRetry.err = GoNil
       /\ ~ goRetry.ctxErr

\* C19 (as claimed): a call of withRetry or of retry.Do whose operation fails
\* with a retryable error every time ends after exactly maxRetries + 1 calls
\* and maxRetries sleeps and fails with the last error; a call whose operation
\* succeeds at its k-th call has made exactly k calls.
C19_BothPoliciesExhaustRetries ==
  /\ WithRetryAttempts
  /\ DoSuccessAttempts
  /\ (goRetry.pc = "returned" /\ GoAllFailedRetryable)
       => /\ goRetry.calls = goRetry.maxRetries + 1
          /\ goRetry.sleeps = goRetry.maxRetries
          /\ Len(goRetry.outcomes) = goRetry.calls
          /\ ~ goRetry.ctxErr
          /\ goRetry.err = goRetry.outcomes[Len(goRetry.outcomes)]

\* C19 (amended): the same of withRetry, and of retry.Do as long as Do does
\* not return ctx.Err().  Do returns ctx.Err() only when ctx was cancelled and
\* only out of a backoff wait: every call so far failed with a retryable
\* error, there were at most MaxRetries of them, each followed by a wait, and
\* no call follows.
C19_RetryPolicyAttempts ==
  /\ WithRetryAttempts
  /\ DoSuccessAttempts
  /\ (goRetry.pc = "returned" /\ GoAllFailedRetryable /\ ~ goRetry.ctxErr)
       => /\ goRetry.calls = goRetry.maxRetries + 1
          /\ goRetry.sleeps = goRetry.maxRetries
          /\ Len(goRetry.outcomes) = goRetry.calls
          /\ goRetry.err = goRetry.outcomes[Len(goRetry.outcomes)]
  /\ (goRetry.pc = "returned" /\ goRetry.ctxErr)
       => /\ goRetry.cancelled
          /\ GoAllFailedRetryable
          /\ goRetry.calls = Len(goRetry.outcomes)
          /\ goRetry.calls <= goRetry.maxRetries
          /\ goRetry.sleeps = goRetry.calls

\* Do was given the default MaxRetries, its ctx was cancelled, and out of the
\* second backoff wait it has returned ctx.Err() after two calls
C19_Witness ==
  /\ goRetry.pc = "returned"
  /\ goRetry.ctxErr
  /\ goRetry.maxRetries = GoDefaultMaxRetries
  /\ goRetry.calls = 2
  /\ goRetry.sleeps = 2

\* C20: a non-retryable error is the last outcome of a call of withRetry: the
\* call has thrown that same error, no sleep followed it and no further
\* attempt was made.
C20_NonRetryableShortCircuits ==
  \A k \in 1..Len(retry.outcomes) :
    (retry.outcomes[k] # OkValue /\ ~ isRetryable(retry.outcomes[k]))
      => /\ k = Len(retry.outcomes)
         /\ retry.pc = "thrown"
         /\ retry.thrown = retry.outcomes[k]
         /\ retry.calls = k
         /\ retry.sleeps = k - 1

\* after one retryable failure the second attempt failed with a non-retryable
\* error while retries were left
C20_Witness ==
  /\ retry.pc = "thrown"
  /\ retry.maxRetries = MaxRetriesConfig
  /\ Len(retry.outcomes) = 2
  /\ isRetryable(retry.outcomes[1])
  /\ ~ isRetryable(retry.outcomes[2])
  /\ retry.sleeps = 1

\* C21 (as claimed): the delay slept after an attempt that failed with a
\* RateLimitError with retryAfterMs > 0 equals that retryAfterMs.
C21_DelayEqualsRetryAfter ==
  \A k \in 1..Len(retry.delays) :
    (retry.outcomes[k].class = "RateLimitError"
       /\ retry.outcomes[k].retryAfterMs > 0)
      => retry.delays[k] = retry.outcomes[k].retryAfterMs

\* C21 (amended): that delay equals the smaller of retryAfterMs and
\* config.maxDelayMs, whatever the attempt number and the jitter.
C21_DelayIsCappedRetryAfter ==
  \A k \in 1..Len(retry.delays) :
    (retry.outcomes[k].class = "RateLimitError"
       /\ retry.outcomes[k].retryAfterMs > 0)
      => retry.delays[k] = Min(retry.outcomes[k].retryAfterMs, retry.maxDelayMs)

\* the first attempt failed with a RateLimitError whose retryAfterMs is below
\* maxDelayMs and above the backoff of that attempt: withRetry sleeps for it
C21_Witness ==
  /\ retry.pc = "sleeping"
  /\ Len(retry.delays) = 1
  /\ retry.outcomes[1].class = "RateLimitError"
  /\ retry.outcomes[1].retryAfterMs = 5000
  /\ retry.maxDelayMs = DefaultMaxDelayMs
  /\ retry.delays[1] = 5000


(* ---- TranslatorChain ---- *)
\* the position in chain.calls of the translate call to provider p, or 0
TranslateCallOf(p) ==
  IF \E k \in DOMAIN chain.calls : chain.calls[k] = [provider |-> p, op |-> "translate"]
  THEN CHOOSE k \in DOMAIN chain.calls :
         chain.calls[k] = [provider |-> p, op |-> "translate"]
  ELSE 0

\* a settled call that failed with a TranslationError whose retryable is b
FailedWith(k, b) ==
  /\ k \in DOMAIN chain.outcomes
  /\ chain.outcomes[k].kind = "error"
  /\ chain.outcomes[k].error.class = "TranslationError"
  /\ chain.outcomes[k].error.retryable = b

\* C22: TranslatorChain.translate goes through the providers in list order
\* (the first call is to provider 1, each later call is to the same or to the
\* next provider), calls translate only on a provider whose isAvailable() just
\* resolved true, calls translate at most once per provider, makes no call
\* after a translate that succeeded, and when it returns, the result is that of
\* the only provider that succeeded and no earlier provider failed with a
\* non-retryable TranslationError.
C22_ChainOrderSkipFirstSuccess ==
  /\ \A k \in DOMAIN chain.calls :
       /\ k = 1 => chain.calls[k] = [provider |-> 1, op |-> "isAvailable"]
       /\ k > 1 =>
            \/ /\ chain.calls[k].op = "translate"
               /\ chain.calls[k - 1] =
                    [provider |-> chain.calls[k].provider, op |-> "isAvailable"]
               /\ chain.outcomes[k - 1].kind = "available"
            \/ /\ chain.calls[k].op = "isAvailable"
               /\ chain.calls[k].provider = chain.calls[k - 1].provider + 1
               /\ chain.outcomes[k - 1].kind \in {"unavailable", "error"}
       /\ chain.calls[k].provider \in 1..chain.providers
  /\ \A k1, k2 \in DOMAIN chain.calls :
       (k1 < k2 /\ chain.calls[k1].op = "translate")
         => chain.calls[k2].provider > chain.calls[k1].provider
  /\ \A k \in DOMAIN chain.outcomes :
       chain.outcomes[k].kind = "ok" => k = Len(chain.calls)
  /\ chain.pc = "returned" =>
       /\ chain.outcomes # <<>>
       /\ Len(chain.outcomes) = Len(chain.calls)
       /\ chain.outcomes[Len(chain.outcomes)].kind = "ok"
       /\ chain.calls[Len(chain.calls)] =
            [provider |-> chain.result, op |-> "translate"]
       /\ \A k \in DOMAIN chain.outcomes : ~ FailedWith(k, FALSE)
  /\ chain.pc # "returned" => chain.result = 0

\* the third provider answers after the first failed retryably and the second
\* was unavailable
C22_Witness ==
  /\ chain.pc = "returned"
  /\ chain.result = 3
  /\ FailedWith(TranslateCallOf(1), TRUE)
  /\ \E k \in DOMAIN chain.outcomes :
       chain.calls[k].provider = 2 /\ chain.outcomes[k].kind = "unavailable"

\* C23: once a provider's translate has failed with a non-retryable
\* TranslationError, translate has thrown that very error and that call is the
\* last call made to any provider.
C23_NonRetryableAbortsChain ==
  \A k \in DOMAIN chain.outcomes :
    (chain.calls[k].op = "translate" /\ FailedWith(k, FALSE))
      => /\ chain.pc = "thrown"
         /\ chain.thrown = chain.outcomes[k].error
         /\ k = Len(chain.calls)

\* the first of three providers fails with a non-retryable TranslationError
C23_Witness ==
  /\ chain.providers = 3
  /\ chain.pc = "thrown"
  /\ FailedWith(TranslateCallOf(1), FALSE)

\* every provider of the chain has been tried and failed with a retryable error
AllFailedRetryable ==
  /\ chain.providers > 0
  /\ \A p \in 1..chain.providers : FailedWith(TranslateCallOf(p), TRUE)

\* C24: when translate has been called on every provider of the chain and each
\* call failed with a retryable TranslationError, translate has thrown the
\* aggregate error, whose entries are those failures, one per provider and in
\* chain order, and no result is returned.
C24_AggregateErrorEnumeratesFailures ==
  AllFailedRetryable =>
    /\ chain.pc = "thrown"
    /\ chain.result = 0
    /\ chain.thrown.class = "TranslationError"
    /\ chain.thrown.provider = 0
    /\ Len(chain.thrown.errors) = chain.providers
    /\ \A p \in 1..chain.providers :
         chain.thrown.errors[p] = chain.outcomes[TranslateCallOf(p)].error

\* three providers, each tried, each failed retryably
C24_Witness ==
  /\ chain.providers = 3
  /\ AllFailedRetryable
  /\ chain.pc = "thrown"

(* ---- RateLimiter ---- *)
\* this step is the return of caller c's waitForCapacity
CapacityReturns(c) ==
  /\ limiter.callers[c].pc # "executing"
  /\ limiter'.callers[c].pc = "executing"

\* this step is a turn of the loop of caller c's waitForCapacity
CapacityPolls(c) ==
  /\ limiter'.last.caller = c
  /\ limiter'.last.op \in {"translate", "wake"}

\* what the buckets hold at the instant of this step, before anything is taken
HoldsEnough(estimatedTokens) ==
  /\ refill(limiter).tokenBucket >= estimatedTokens
  /\ refill(limiter).requestBucket >= 1

\* C25: waitForCapacity(n) returns only at an instant at which the token
\* bucket, refilled up to that instant, holds at least n tokens and the request
\* bucket at least one request; a turn of its loop taken at such an instant
\* returns; and with n no larger than tokensPerMinute a caller that sleeps in
\* waitForCapacity eventually leaves it, the clock advancing and timers firing.
C25_WaitForCapacityBlocksUntilRefilled ==
  /\ [][\A c \in LimiterCallerIds :
          /\ CapacityReturns(c)
               => HoldsEnough(limiter'.callers[c].estimatedTokens)
          /\ (CapacityPolls(c) /\ HoldsEnough(limiter'.callers[c].estimatedTokens))
               => limiter'.callers[c].pc = "executing"]_vars
  /\ \A c \in LimiterCallerIds :
       (/\ limiter.callers[c].pc = "sleeping"
        /\ limiter.callers[c].estimatedTokens <= limiter.tokensPerMinute)
         ~> (limiter.callers[c].pc = "executing")

\* a caller that had to sleep has returned from waitForCapacity(500), while
\* another one asking for more than the capacity is still waiting
C25_Witness ==
  /\ limiter.callers[1].pc = "executing"
  /\ limiter.callers[1].waited
  /\ limiter.callers[1].estimatedTokens = 500
  /\ limiter.callers[2].pc = "sleeping"
  /\ limiter.callers[2].estimatedTokens > limiter.tokensPerMinute

\* C26: at the return of waitForCapacity(estimatedTokens) the token bucket is
\* estimatedTokens lower, and the request bucket one lower, than what they held
\* at the capacity check.
C26_ReturnDebitsBothBuckets ==
  [][\A c \in LimiterCallerIds :
       CapacityReturns(c) =>
         /\ limiter'.tokenBucket =
              refill(limiter).tokenBucket - limiter'.callers[c].estimatedTokens
         /\ limiter'.requestBucket = refill(limiter).requestBucket - 1]_vars

(* ---- ratelimit.Limiter ---- *)
\* C27: when the context is cancelled while the goroutine is parked in the
\* select of waitRequests or of waitTokens, the goroutine is woken by
\* ctx.Done() with its timer still running, and Wait returns
\* context.Canceled; it does not return nil.
C27_WaitReturnsOnCancellation ==
  goLimiter.cancelledWhileBlocked =>
    /\ goLimiter.timer > 0
    /\ \/ Parked(goLimiter) /\ goLimiter.woken = "done"
       \/ goLimiter.pc = "idle" /\ goLimiter.err = "Canceled"

\* Wait, blocked for token capacity after it took a request, was cancelled
\* and has returned context.Canceled
C27_Witness ==
  /\ goLimiter.cancelledWhileBlocked
  /\ goLimiter.pc = "idle"
  /\ goLimiter.err = "Canceled"
  /\ goLimiter.returnedFrom = "waitTokens"

(* ---- items of one job ---- *)
\* the items of job j that are being processed
ProcessingOf(j) ==
  {i \in ItemRows : items[i].job_id = j /\ items[i].status = "processing"}

\* C29: at most one item of a job has status processing, and an item with
\* status processing is the current item of the one executor of its job.
C29_OneItemProcessingPerJob ==
  /\ \A j \in JobRows : Cardinality(ProcessingOf(j)) <= 1
  /\ \A i \in ItemRows :
       items[i].status = "processing" =>
         /\ items[i].job_id \in activeJobs
         /\ exec[items[i].job_id].cur.id = i

\* the second item of a job is being processed after its failed items were
\* queued again
C29_Witness ==
  /\ requeues > 0
  /\ \E i1, i2 \in ItemRows :
       /\ i1 < i2
       /\ items[i1].job_id = items[i2].job_id
       /\ items[i1].status = "completed"
       /\ items[i2].status = "processing"

\* C28: an item is moved to processing for the first time only when every
\* item of the same job that was created before it has been moved to
\* processing already.
C28_ItemsStartInCreationOrder ==
  [][\A i2 \in ItemRows :
       (i2 \notin started /\ i2 \in started')
         => \A i1 \in ItemRows :
              (i1 < i2 /\ items[i1].job_id = items[i2].job_id) => i1 \in started]_vars

\* both items of a job have been started, the second one after the failed
\* items of the job were queued again
C28_Witness ==
  /\ requeues > 0
  /\ \E i1, i2 \in ItemRows :
       /\ i1 < i2
       /\ items[i1].job_id = items[i2].job_id
       /\ {i1, i2} \subseteq started
       /\ items[i2].status = "processing"
       /\ items[i1].status = "pending"

(* ---- createJob ---- *)
\* C30: a createJob call that fails (type single without resourceId) leaves
\* the jobs and items tables as they were.
C30_FailedCreateJobPersistsNothing ==
  [][(/\ lastCall'.op = "createJob"
      /\ lastCall'.options.type = "single"
      /\ lastCall'.options.resourceId = NoResource)
       => jobs' = jobs /\ items' = items]_vars

(* ---- fallback.Chain ---- *)
\* C31: once a provider of the Go chain has failed with an error that is not
\* retryable, no later provider is called, and what Translate returns is that
\* failure.
C31_GoChainStopsOnNonRetryable ==
  \A k \in DOMAIN goChain.outcomes :
    (goChain.outcomes[k] # GoNil /\ ~ IsRetryable(goChain.outcomes[k]))
      => /\ k = Len(goChain.calls)
         /\ goChain.pc = "returned"
         /\ goChain.resp = 0
         /\ goChain.err.provider = goChain.calls[k]

(* ---- runner configuration ---- *)
\* C32: the provider is called for one item at most config.maxRetries times
\* after its first attempt.
C32_ConfiguredMaxRetriesLimitsAttempts ==
  \A j \in JobIds : exec[j].attempts <= config.maxRetries + 1

(* ---- progress of jobs and items ---- *)
\* the job exists and has one of the statuses S
JobStatusIn(j, S) == IF j \in JobRows THEN jobs[j].status \in S ELSE FALSE

\* the item exists and has one of the statuses S
ItemStatusIn(i, S) == IF i \in ItemRows THEN items[i].status \in S ELSE FALSE

\* the job of the item has been cancelled: its status says so or its flag is set
ItemOfCancelledJob(i) ==
  IF i \in ItemRows
  THEN jobs[items[i].job_id].status = "cancelled" \/ items[i].job_id \in cancelledJobs
  ELSE FALSE

\* C33: on a started runner a pending job eventually has a terminal status,
\* and an item that is pending or processing eventually is completed or
\* failed, unless its job is cancelled.
C33_JobsAndItemsReachTerminalStatus ==
  /\ \A j \in JobIds :
       (running /\ JobStatusIn(j, {"pending"})) ~> JobStatusIn(j, Terminal)
  /\ \A i \in 1..(2 * MaxJobs) :
       (running /\ ItemStatusIn(i, {"pending", "processing"}))
         ~> (ItemStatusIn(i, {"completed", "failed"}) \/ ItemOfCancelledJob(i))

\* C34: every item of a job whose status is completed is completed or failed.
C34_CompletedJobHasNoOpenItems ==
  \A i \in ItemRows :
    jobs[items[i].job_id].status = "completed"
      => items[i].status \in {"completed", "failed"}

\* C35: a job that is not active is not in the cancelled-job set (the
\* cancellation flag does not outlive the run it was issued for).
C35_CancelFlagOnlyWhileActive ==
  \A j \in cancelledJobs : j \in activeJobs

\* C36: at most one poll loop is alive at any time, whatever the sequence of
\* start() and stop() calls.
C36_AtMostOnePollLoop ==
  loops <= 1

\* C37: for every job, getJobProgress reports total equal to the number of
\* its items, completed equal to the number of its completed items and failed
\* equal to the number of its failed items.
C37_ProgressMatchesItems ==
  \A j \in JobRows :
    getJobProgress(Cur, j) =
      [total |-> Cardinality(ItemsOfJob(Cur, j)),
       completed |-> CountStatus(Cur, j, "completed"),
       failed |-> CountStatus(Cur, j, "failed")]

\* C38: the token bucket and the request bucket of a RateLimiter that is used
\* by translate calls only (consume is not called from outside), concurrent
\* ones included, are never negative.
C38_BucketsNeverNegative ==
  (limiter.constructed /\ limiter.directCalls = 0)
    => (limiter.tokenBucket >= 0 /\ limiter.requestBucket >= 0)

\* C39: every call of waitForCapacity eventually returns, whatever the
\* estimate, the clock advancing and timers firing.
C39_WaitForCapacityReturns ==
  \A c \in LimiterCallerIds :
    (limiter.callers[c].pc = "sleeping") ~> (limiter.callers[c].pc = "executing")

\* C40: a provider.translate call starts only when at least
\* 1000 / requestsPerSecond ms have passed since the previous one started, and
\* no step starts two calls, also when several jobs run side by side.  A call
\* starts at the instant at which waitForRateLimit writes lastRequestTime for
\* it: at the end of its timer, or in the segment that needed no timer.
C40_ProviderCallsMinIntervalApart ==
  [][/\ Len(invoked') <= 1
     /\ \A j \in JobIds :
          (\/ exec[j].pc # "rateDone" /\ exec'[j].pc = "rateDone"
           \/ exec[j].pc = "rateWait" /\ exec'[j].pc = "calling")
            => timeSinceLastRequest >= MinInterval]_vars
====
